---- MODULE Spec2Model ----
(***************************************************************************)
(* Verification model of lsst::ip::diffim ImageSubtract.cc:                *)
(*   - getCollectionOfFootprintsForPsfMatching (the footprint selector),   *)
(*   - generateDeltaFunctionKernelSet / generateAlardLuptonKernelSet,      *)
(*   - the accumulation scan of computePsfMatchingKernelForFootprint.      *)
(* Each component has its own specification over the shared variables.     *)
(***************************************************************************)
EXTENDS Integers, Sequences, FiniteSets, TLC

(***************************************************************************)
(* Bounds of the model                                                     *)
(***************************************************************************)
\* image size of the selector's two images
ImgW == 4
ImgH == 3
\* most raw regions the detector returns in one pass
MaxDet == 2
\* largest initial threshold, in threshold quanta
MaxThreshold == 4
\* width in bits of the machine integers
WordBits == 4
\* size of the images handed to the kernel solver
SolveW == 3
SolveH == 3
\* most kernels in a basis list
MaxBasis == 2
\* size of the image whose statistics are taken
StatW == 2
StatH == 2
\* largest intensity of a pixel
MaxPixel == 1
\* the variances of the model are the divisors of VarianceLcm; the weights,
\* M and B are held in units of 1/VarianceLcm
VarianceLcm == 2
NumCalls == 2

(***************************************************************************)
(* Machine arithmetic                                                      *)
(***************************************************************************)
\* int and unsigned int are WordBits wide in the model (32 in the build): the
\* wrap-around of the conversions is kept, at a width TLC can enumerate
UIntModulus == 2 ^ WordBits
IntMax == 2 ^ (WordBits - 1) - 1

\* conversion of an int to unsigned int
ToUnsigned(v) == v % UIntModulus

\* static_cast<int> of an unsigned int (two's complement)
ToSigned(v) == IF (v % UIntModulus) > IntMax THEN (v % UIntModulus) - UIntModulus
               ELSE v % UIntModulus

\* num/den rounded to the nearest integer, ties to even (IEEE-754 default
\* rounding); den > 0
RoundNearestEven(num, den) ==
    LET q == num \div den
        r == num % den
    IN  IF 2 * r < den THEN q
        ELSE IF 2 * r > den THEN q + 1
        ELSE IF q % 2 = 0 THEN q ELSE q + 1

(***************************************************************************)
(* Footprints, masks and the external collaborators of the selector        *)
(***************************************************************************)
Pixels == (0 .. ImgW - 1) \X (0 .. ImgH - 1)

Abs(v) == IF v < 0 THEN 0 - v ELSE v

SetMin(S) == CHOOSE v \in S : \A u \in S : v <= u
SetMax(S) == CHOOSE v \in S : \A u \in S : v >= u

\* Footprint::getNpix
Npix(fp) == Cardinality(fp)

\* Footprint::getBBox
BBoxOf(fp) ==
    [x0 |-> SetMin({p[1] : p \in fp}), y0 |-> SetMin({p[2] : p \in fp}),
     x1 |-> SetMax({p[1] : p \in fp}), y1 |-> SetMax({p[2] : p \in fp})]

\* growFootprint: every pixel within distance margin of the region
GrowFootprint(fp, margin) ==
    {q \in ((SetMin({p[1] : p \in fp}) - margin) .. (SetMax({p[1] : p \in fp}) + margin))
           \X ((SetMin({p[2] : p \in fp}) - margin) .. (SetMax({p[2] : p \in fp}) + margin)) :
        \E p \in fp : Abs(q[1] - p[1]) + Abs(q[2] - p[2]) <= margin}

\* the bounding box lies inside the image
BBoxInImage(bb) == bb.x0 >= 0 /\ bb.y0 >= 0 /\ bb.x1 <= ImgW - 1 /\ bb.y1 <= ImgH - 1

\* FindSetBits::apply followed by getBits: the OR of the mask planes set on
\* the pixels of the footprint.  A pixel outside the image is a read outside
\* the mask's storage; oob is what such a read returned.
FindSetBits(mask, fp, oob) ==
    UNION ({mask[p] : p \in fp \cap Pixels}
           \cup (IF fp \subseteq Pixels THEN {} ELSE {oob}))

\* raw regions the detector may report
RawRegions ==
    { {<<1, 1>>},
      {<<1, 1>>, <<2, 1>>},
      {<<0, 0>>, <<1, 0>>},
      {<<ImgW - 1, ImgH - 1>>} }

RECURSIVE SeqsUpTo(_, _)
SeqsUpTo(S, n) ==
    IF n = 0 THEN {<<>>}
    ELSE LET shorter == SeqsUpTo(S, n - 1)
         IN  shorter \cup {Append(s, e) : s \in shorter, e \in S}

\* DetectionSet::getFootprints: an ordered list of pairwise disjoint regions
DetectorOutputs ==
    {s \in SeqsUpTo(RawRegions, MaxDet) :
        \A a, b \in 1 .. Len(s) : a # b => s[a] \cap s[b] = {}}

CleanMask == [p \in Pixels |-> {}]
MasksToConvolve == {CleanMask, [CleanMask EXCEPT ![<<2, 1>>] = {"BAD"}]}
MasksToNotConvolve == {CleanMask, [CleanMask EXCEPT ![<<1, 1>>] = {"SAT"}]}

\* the Policy values read at lines 321-326.  The thresholds are doubles: they
\* are held as multiples of the smallest step of the format, the scaling as a
\* ratio <<numerator, denominator>> strictly between 0 and 1
Policies ==
    [footprintDiffimNpixMin      : {ToUnsigned(1), ToUnsigned(2)},
     footprintDiffimGrow         : {ToUnsigned(0), ToUnsigned(1)},
     minimumCleanFootprints      : {0, 1, 2},
     footprintDetectionThreshold : {0 - 2, MaxThreshold},
     detectionThresholdScaling   : {<<1, 2>>, <<3, 4>>},
     minimumDetectionThreshold   : {0 - 3, 0, 2}]

(***************************************************************************)
(* Doubles                                                                 *)
(***************************************************************************)
\* a double of the model is an exact fraction <<numerator, denominator>> in
\* lowest terms with a positive denominator, or the not-a-number NaN
NaN == <<0, 0>>
Zero == <<0, 1>>

RECURSIVE Gcd(_, _)
Gcd(a, b) == IF b = 0 THEN a ELSE Gcd(b, a % b)

Fraction(num, den) ==
    LET g == Gcd(Abs(num), Abs(den))
        s == IF den < 0 THEN -1 ELSE 1
    IN  IF den = 0 THEN NaN ELSE <<(s * num) \div g, (s * den) \div g>>

\* std::isnan
IsNan(x) == x = NaN

\* the comparison x < y of two doubles: false when either is not-a-number
LessThan(x, y) == ~IsNan(x) /\ ~IsNan(y) /\ x[1] * y[2] < y[1] * x[2]

\* the sum, difference, product and quotient of two doubles
Add(x, y) ==
    IF IsNan(x) \/ IsNan(y) THEN NaN ELSE Fraction(x[1] * y[2] + y[1] * x[2], x[2] * y[2])
Sub(x, y) ==
    IF IsNan(x) \/ IsNan(y) THEN NaN ELSE Fraction(x[1] * y[2] - y[1] * x[2], x[2] * y[2])
Mul(x, y) == IF IsNan(x) \/ IsNan(y) THEN NaN ELSE Fraction(x[1] * y[1], x[2] * y[2])
Div(x, y) == IF IsNan(x) \/ IsNan(y) THEN NaN ELSE Fraction(x[1] * y[2], x[2] * y[1])

\* fabs
Fabs(x) == IF IsNan(x) THEN NaN ELSE <<Abs(x[1]), x[2]>>

\* sqrt(x) of any double, held by its square: not-a-number when x is
\* negative or not-a-number
SquareRoot(x) == [squared |-> IF IsNan(x) \/ x[1] < 0 THEN NaN ELSE x]

\* fabs(root) > limit for a root held by its square
RootExceeds(root, limit) ==
    /\ ~IsNan(root.squared)
    /\ ~IsNan(limit)
    /\ (LessThan(limit, Zero) \/ LessThan(Mul(limit, limit), root.squared))

\* largest r with r * r <= n
IntSqrt(n) == CHOOSE r \in 0 .. n : r * r <= n /\ (r + 1) * (r + 1) > n

\* sqrt of a double whose numerator and denominator are perfect squares;
\* not-a-number for a negative or not-a-number argument
Sqrt(x) ==
    IF IsNan(x) \/ x[1] < 0 THEN NaN ELSE <<IntSqrt(x[1]), IntSqrt(x[2])>>

RECURSIVE SumOver(_, _)
\* the sum of term[p] over the pixels p of S
SumOver(S, term) ==
    IF S = {} THEN 0
    ELSE LET p == CHOOSE q \in S : TRUE
         IN  term[p] + SumOver(S \ {p}, term)

VARIABLES
    pc,               \* position of the running operation
    policy,           \* the selector's Policy
    maskToConvolve,   \* mask plane of imageToConvolve
    maskToNotConvolve,\* mask plane of imageToNotConvolve
    footprintDetectionThreshold, \* the working threshold
    nCleanFootprints,
    footprintListIn,
    footprintListOut,
    fpIter,           \* position of iterator i in footprintListIn
    passThreshold,    \* threshold handed to the detector in the last pass
    nPasses,          \* 0, 1 or 2 (= two or more) passes run so far
    selError,         \* exception that left the selector, "none" if none
    genOp,            \* basis generator called: "delta", "alardLupton", "none"
    width,            \* unsigned int arguments of the generator
    height,           \*   (nCols and nRows of generateAlardLuptonKernelSet)
    kernelBasisList,
    genRow,           \* loop variables row and col of lines 111-112
    genCol,
    genError,         \* exception thrown by the generator, "none" if none
    imageToConvolve,  \* intensity plane of the solver's imageToConvolve
    imageToNotConvolve, \* intensity plane of imageToNotConvolve
    varianceImage,    \* variance plane of varianceImage
    kernelInBasisList,
    convolvedImageList, \* intensity planes of the convolved images
    M,
    B,
    startCol,
    startRow,
    endCol,
    endRow,
    row,              \* loop variables of lines 524 and 526
    col,
    imageToNotConvolveLocator,
    varianceLocator,
    convolvedLocatorList,
    X,                \* the solution vector, entries 0 .. nParameters - 1
    Cov,              \* the diagonal of the covariance matrix Cov
    kCols,            \* policy.getInt("kernelCols")
    kRows,            \* policy.getInt("kernelRows")
    idx,              \* loop variable idx of line 663
    kValues,
    kErrValues,
    kernelPtr,        \* the four outputs of the solver
    kernelErrorPtr,
    background,
    backgroundError,
    fitError,         \* exception that left the solver after line 658
    failedParameter,  \* index of the parameter whose check threw, -1 if none
    diffOp,           \* overload of convolveAndSubtract called, "none" if none
    maskedImageToConvolve,    \* the MaskedImage arguments of convolveAndSubtract
    maskedImageToNotConvolve,
    convolutionKernel,
    diffBackground,   \* argument background of the scalar overloads
    backgroundFunction,
    edgePixel,        \* what the convolution wrote on its edge pixels
    convolvedMaskedImage,
    statOp,           \* "masked", "unmasked" overload, or "construct"; "none" if none
    inputImage,       \* the MaskedImage whose statistics are taken
    badPixelMask,
    statX,            \* position of ptr in row statY
    statY,            \* loop variable y of lines 728 and 776
    x2Sum,
    xSum,
    nGoodPixels,
    mean,
    sampleVariance,   \* the output argument variance
    residualMean,     \* _residualMean and _residualStd
    residualStd,
    qualityPolicy,    \* the Policy handed to evaluateQuality
    quality,          \* what evaluateQuality returned, "none" before it returns
    callPc,           \* where each of the concurrent solver calls stands
    callInput,        \* per call: what its footprint makes of X and of the workspace
    callWork,         \* per call: the content of the block work points to
    callCov,          \* per call: the content of the block Cov points to
    callOutcome,      \* per call: the fit it returned or the error it threw
    liveBuffers,      \* the blocks allocated and not released, as <<call, name>>
    freedContents,    \* what the released blocks held when they were released
    pristine,         \* what memory never handed out before holds
    inputVariances,   \* the variance planes of imageToConvolve and imageToNotConvolve
                      \* in a second call on the same intensities
    MOther,           \* M and B of that second call
    BOther

selVars == <<policy, maskToConvolve, maskToNotConvolve, footprintDetectionThreshold,
             nCleanFootprints, footprintListIn, footprintListOut, fpIter,
             passThreshold, nPasses, selError>>

genVars == <<genOp, width, height, kernelBasisList, genRow, genCol, genError>>

solveInputs == <<imageToConvolve, imageToNotConvolve, varianceImage, kernelInBasisList>>

solveVars == <<solveInputs, convolvedImageList, M, B, startCol, startRow, endCol,
               endRow, row, col, imageToNotConvolveLocator, varianceLocator,
               convolvedLocatorList>>

fitVars == <<X, Cov, kCols, kRows, idx, kValues, kErrValues, kernelPtr, kernelErrorPtr,
             background, backgroundError, fitError, failedParameter>>

diffVars == <<diffOp, maskedImageToConvolve, maskedImageToNotConvolve, convolutionKernel,
              diffBackground, backgroundFunction, edgePixel, convolvedMaskedImage>>

statVars == <<statOp, inputImage, badPixelMask, statX, statY, x2Sum, xSum, nGoodPixels,
              mean, sampleVariance, residualMean, residualStd, qualityPolicy, quality>>

callVars == <<callPc, callInput, callWork, callCov, callOutcome, liveBuffers,
              freedContents, pristine>>

twinVars == <<inputVariances, MOther, BOther>>

vars == <<pc, selVars, genVars, solveVars, fitVars, diffVars, statVars, callVars, twinVars>>

NoError == "none"

\* the variables of a component that is not running
SelectIdle ==
    /\ policy = "none"
    /\ maskToConvolve = "none"
    /\ maskToNotConvolve = "none"
    /\ footprintDetectionThreshold = 0
    /\ nCleanFootprints = 0
    /\ footprintListIn = <<>>
    /\ footprintListOut = <<>>
    /\ fpIter = 1
    /\ passThreshold = 0
    /\ nPasses = 0
    /\ selError = NoError

GenIdle ==
    /\ genOp = "none"
    /\ width = 0
    /\ height = 0
    /\ kernelBasisList = <<>>
    /\ genRow = 0
    /\ genCol = 0
    /\ genError = NoError

SolveIdle ==
    /\ imageToConvolve = "none"
    /\ imageToNotConvolve = "none"
    /\ varianceImage = "none"
    /\ kernelInBasisList = <<>>
    /\ convolvedImageList = <<>>
    /\ M = "none"
    /\ B = "none"
    /\ startCol = 0
    /\ startRow = 0
    /\ endCol = 0
    /\ endRow = 0
    /\ row = 0
    /\ col = 0
    /\ imageToNotConvolveLocator = <<0, 0>>
    /\ varianceLocator = <<0, 0>>
    /\ convolvedLocatorList = <<>>

\* a kernel pointer that points at no kernel
NullKernel == [kernelList |-> <<>>, kernelParameters |-> <<>>]

FitIdle ==
    /\ X = <<>>
    /\ Cov = <<>>
    /\ kCols = 0
    /\ kRows = 0
    /\ idx = 0
    /\ kValues = <<>>
    /\ kErrValues = <<>>
    /\ kernelPtr = NullKernel
    /\ kernelErrorPtr = NullKernel
    /\ background = Zero
    /\ backgroundError = Zero
    /\ fitError = NoError
    /\ failedParameter = -1

DiffIdle ==
    /\ diffOp = "none"
    /\ maskedImageToConvolve = "none"
    /\ maskedImageToNotConvolve = "none"
    /\ convolutionKernel = "none"
    /\ diffBackground = 0
    /\ backgroundFunction = "none"
    /\ edgePixel = "none"
    /\ convolvedMaskedImage = "none"

\* lines 46-51: a DifferenceImageStatistics built from nothing holds 0 and 0
StatIdle ==
    /\ statOp = "none"
    /\ inputImage = "none"
    /\ badPixelMask = {}
    /\ statX = 0
    /\ statY = 0
    /\ x2Sum = Zero
    /\ xSum = Zero
    /\ nGoodPixels = 0
    /\ mean = Zero
    /\ sampleVariance = Zero
    /\ residualMean = Zero
    /\ residualStd = SquareRoot(Zero)
    /\ qualityPolicy = "none"
    /\ quality = "none"

\* no solver call is under way
CallIdle ==
    /\ callPc = <<>>
    /\ callInput = <<>>
    /\ callWork = <<>>
    /\ callCov = <<>>
    /\ callOutcome = <<>>
    /\ liveBuffers = {}
    /\ freedContents = {}
    /\ pristine = Zero

\* no second call is followed
TwinIdle ==
    /\ inputVariances = <<>>
    /\ MOther = "none"
    /\ BOther = "none"

(***************************************************************************)
(* getCollectionOfFootprintsForPsfMatching                                 *)
(***************************************************************************)
\* the mutant stops one clean region short of the target
WhileConditionShort(nClean, threshold, pol) ==
    (nClean < pol.minimumCleanFootprints - 1) /\ (threshold > pol.minimumDetectionThreshold)

\* the loop condition of line 341
WhileCondition(nClean, threshold, pol) ==
    (nClean < pol.minimumCleanFootprints) /\ (threshold > pol.minimumDetectionThreshold)

\* the mutant keeps the regions of the earlier pass
ClearedListKept(list) == list

\* line 343: footprintListOut.clear()
ClearedList(list) == <<>>

\* line 360
TooFewPixels(fp, pol) == ToUnsigned(Npix(fp)) < pol.footprintDiffimNpixMin

\* lines 383-384: both sub-image constructors succeed
SubImagesExtract(bb) == BBoxInImage(bb)

\* the mutant has no handler: the extraction error leaves the selector
TryExtractUncaught(bb) == IF SubImagesExtract(bb) THEN "accept" ELSE "throw"

\* lines 382-391: what the try block does with the outcome of the extraction
TryExtract(bb) == IF SubImagesExtract(bb) THEN "accept" ELSE "continue"

\* the mutant never looks at the mask of imageToNotConvolve
ExamineFootprintOneMask(fp, pol, mC, mM, oobC, oobM) ==
    IF TooFewPixels(fp, pol) THEN "continue"
    ELSE LET fpGrow == GrowFootprint(fp, pol.footprintDiffimGrow)
         IN  IF FindSetBits(mC, fpGrow, oobC) # {} THEN "continue"
             ELSE TryExtract(BBoxOf(fpGrow))

\* lines 360-395 for one raw region: "continue", "accept" or "throw"
ExamineFootprint(fp, pol, mC, mM, oobC, oobM) ==
    IF TooFewPixels(fp, pol) THEN "continue"
    ELSE LET fpGrow == GrowFootprint(fp, pol.footprintDiffimGrow)
         IN  IF FindSetBits(mC, fpGrow, oobC) # {} THEN "continue"
             ELSE IF FindSetBits(mM, fpGrow, oobM) # {} THEN "continue"
             ELSE TryExtract(BBoxOf(fpGrow))

\* line 398: the product of two doubles, rounded as the format rounds
ScaleThreshold(threshold, scaling) == RoundNearestEven(threshold * scaling[1], scaling[2])

InitSelect ==
    /\ pc = "selTest"
    /\ policy \in Policies
    /\ maskToConvolve \in MasksToConvolve
    /\ maskToNotConvolve \in MasksToNotConvolve
    /\ footprintDetectionThreshold = policy.footprintDetectionThreshold
    /\ nCleanFootprints = 0
    /\ footprintListIn = <<>>
    /\ footprintListOut = <<>>
    /\ fpIter = 1
    /\ passThreshold = 0
    /\ nPasses = 0
    /\ selError = NoError
    /\ GenIdle
    /\ SolveIdle
    /\ FitIdle
    /\ DiffIdle
    /\ StatIdle
    /\ CallIdle
    /\ TwinIdle

\* line 341: evaluate the loop condition
SelTest ==
    /\ pc = "selTest"
    /\ pc' = IF WhileCondition(nCleanFootprints, footprintDetectionThreshold, policy)
             THEN "selDetect" ELSE "selDone"
    /\ UNCHANGED <<selVars, genVars, solveVars, fitVars, diffVars, statVars, callVars,
                   twinVars>>

\* lines 342-357: clear both lists, run the detector at the working threshold.
\* The detector is a function of the image and the threshold: asked again at
\* the threshold of the previous pass it reports the same regions.
SelDetect ==
    /\ pc = "selDetect"
    /\ \E found \in DetectorOutputs :
          /\ (nPasses > 0 /\ passThreshold = footprintDetectionThreshold)
                => found = footprintListIn
          /\ footprintListIn' = found
    /\ footprintListOut' = ClearedList(footprintListOut)
    /\ nCleanFootprints' = 0
    /\ fpIter' = 1
    /\ passThreshold' = footprintDetectionThreshold
    /\ nPasses' = IF nPasses < 2 THEN nPasses + 1 ELSE 2
    /\ pc' = "selFilter"
    /\ UNCHANGED <<policy, maskToConvolve, maskToNotConvolve,
                   footprintDetectionThreshold, selError, genVars, solveVars, fitVars,
                   diffVars, statVars, callVars, twinVars>>

\* lines 358-396: one iteration of the loop over footprintListIn
SelFilter ==
    /\ pc = "selFilter"
    /\ fpIter <= Len(footprintListIn)
    /\ \E oobC, oobM \in {{}, {"BAD"}} :
          LET fp == footprintListIn[fpIter]
              outcome == ExamineFootprint(fp, policy, maskToConvolve,
                                          maskToNotConvolve, oobC, oobM)
          IN  /\ footprintListOut' =
                    IF outcome = "accept"
                    THEN Append(footprintListOut,
                                GrowFootprint(fp, policy.footprintDiffimGrow))
                    ELSE footprintListOut
              /\ nCleanFootprints' =
                    IF outcome = "accept" THEN nCleanFootprints + 1
                    ELSE nCleanFootprints
              /\ selError' = IF outcome = "throw" THEN "Exception" ELSE selError
              /\ pc' = IF outcome = "throw" THEN "selDone" ELSE "selFilter"
    /\ fpIter' = fpIter + 1
    /\ UNCHANGED <<policy, maskToConvolve, maskToNotConvolve,
                   footprintDetectionThreshold, footprintListIn,
                   passThreshold, nPasses, genVars, solveVars, fitVars, diffVars,
                   statVars, callVars, twinVars>>

\* line 398: the end of the pass scales the working threshold
SelScale ==
    /\ pc = "selFilter"
    /\ fpIter > Len(footprintListIn)
    /\ footprintDetectionThreshold' =
          ScaleThreshold(footprintDetectionThreshold, policy.detectionThresholdScaling)
    /\ pc' = "selTest"
    /\ UNCHANGED <<policy, maskToConvolve, maskToNotConvolve, nCleanFootprints,
                   footprintListIn, footprintListOut, fpIter, passThreshold,
                   nPasses, selError, genVars, solveVars, fitVars, diffVars, statVars,
                   callVars, twinVars>>

NextSelect == SelTest \/ SelDetect \/ SelFilter \/ SelScale

SpecSelect == InitSelect /\ [][NextSelect]_vars

\* the selector keeps taking steps until it returns
FairSpecSelect == SpecSelect /\ WF_vars(NextSelect)

(***************************************************************************)
(* generateDeltaFunctionKernelSet and generateAlardLuptonKernelSet         *)
(***************************************************************************)
\* LSST_EXCEPT(exceptions::Exception, message)
Exception(message) == [type |-> "Exception", what |-> message]

\* math::DeltaFunctionKernel(width, height, point): a width x height kernel
\* whose only non-zero pixel, of weight 1, is point; point is its anchor
DeltaFunctionKernel(w, h, point) ==
    [width |-> w, height |-> h, pixel |-> point, ctrX |-> point[1], ctrY |-> point[2]]

\* line 105
DeltaDimensionsInvalid(w, h) == (w < 1) \/ (h < 1)

\* the mutant rejects only when both dimensions are not positive
AlardLuptonDimensionsInvalidBoth(nRows, nCols) == (nCols < 1) /\ (nRows < 1)

\* line 140
AlardLuptonDimensionsInvalid(nRows, nCols) == (nCols < 1) \/ (nRows < 1)

\* lines 108-109
signedWidth == ToSigned(width)
signedHeight == ToSigned(height)

InitBasis ==
    /\ genOp \in {"delta", "alardLupton"}
    /\ pc = IF genOp = "delta" THEN "deltaStart" ELSE "alardLuptonStart"
    /\ width \in 0 .. UIntModulus - 1
    /\ height \in 0 .. UIntModulus - 1
    /\ kernelBasisList = <<>>
    /\ genRow = 0
    /\ genCol = 0
    /\ genError = NoError
    /\ SelectIdle
    /\ SolveIdle
    /\ FitIdle
    /\ DiffIdle
    /\ StatIdle
    /\ CallIdle
    /\ TwinIdle

\* lines 105-107: the argument check throws
DeltaThrow ==
    /\ pc = "deltaStart"
    /\ DeltaDimensionsInvalid(width, height)
    /\ genError' = Exception("nRows and nCols must be positive")
    /\ pc' = "genThrown"
    /\ UNCHANGED <<genOp, width, height, kernelBasisList, genRow, genCol, selVars,
                   solveVars, fitVars, diffVars, statVars, callVars, twinVars>>

\* lines 105-111: the arguments pass the check, the row loop starts
DeltaBegin ==
    /\ pc = "deltaStart"
    /\ ~DeltaDimensionsInvalid(width, height)
    /\ kernelBasisList' = <<>>
    /\ genRow' = 0
    /\ genCol' = 0
    /\ pc' = "deltaLoop"
    /\ UNCHANGED <<genOp, width, height, genError, selVars, solveVars, fitVars, diffVars,
                   statVars, callVars, twinVars>>

\* lines 112-116: one iteration of the column loop
DeltaPush ==
    /\ pc = "deltaLoop"
    /\ genRow < signedHeight
    /\ genCol < signedWidth
    /\ kernelBasisList' =
          Append(kernelBasisList, DeltaFunctionKernel(width, height, <<genCol, genRow>>))
    /\ genCol' = genCol + 1
    /\ UNCHANGED <<pc, genOp, width, height, genRow, genError, selVars, solveVars,
                   fitVars, diffVars, statVars, callVars, twinVars>>

\* lines 111-112: the column loop ends, the next row starts
DeltaNextRow ==
    /\ pc = "deltaLoop"
    /\ genRow < signedHeight
    /\ ~(genCol < signedWidth)
    /\ genRow' = genRow + 1
    /\ genCol' = 0
    /\ UNCHANGED <<pc, genOp, width, height, kernelBasisList, genError, selVars,
                   solveVars, fitVars, diffVars, statVars, callVars, twinVars>>

\* line 118: the row loop ends, the list is returned
DeltaReturn ==
    /\ pc = "deltaLoop"
    /\ ~(genRow < signedHeight)
    /\ pc' = "genReturned"
    /\ UNCHANGED <<genVars, selVars, solveVars, fitVars, diffVars, statVars, callVars,
                   twinVars>>

\* lines 140-143: generateAlardLuptonKernelSet throws on every path before
\* line 145
AlardLupton ==
    /\ pc = "alardLuptonStart"
    /\ genError' = IF AlardLuptonDimensionsInvalid(height, width)
                   THEN Exception("nRows and nCols must be positive")
                   ELSE Exception("Not implemented")
    /\ pc' = "genThrown"
    /\ UNCHANGED <<genOp, width, height, kernelBasisList, genRow, genCol, selVars,
                   solveVars, fitVars, diffVars, statVars, callVars, twinVars>>

NextBasis == DeltaThrow \/ DeltaBegin \/ DeltaPush \/ DeltaNextRow \/ DeltaReturn \/ AlardLupton

SpecBasis == InitBasis /\ [][NextBasis]_vars

(***************************************************************************)
(* computePsfMatchingKernelForFootprint: convolutions, window, scan, mirror *)
(***************************************************************************)
SolvePixels == (0 .. SolveW - 1) \X (0 .. SolveH - 1)
PixelValues == 0 .. MaxPixel
VarianceValues == {v \in 1 .. VarianceLcm : VarianceLcm % v = 0}

\* the basis kernels of the model are one pixel smaller than the image
KernelW == SolveW - 1
KernelH == SolveH - 1

\* a kernel with one unit pixel and an anchor of its own
ShiftKernel(point, anchor) ==
    [width |-> KernelW, height |-> KernelH, pixel |-> point,
     ctrX |-> anchor[1], ctrY |-> anchor[2]]

BasisKernels ==
    { DeltaFunctionKernel(KernelW, KernelH, <<0, 0>>),
      DeltaFunctionKernel(KernelW, KernelH, <<KernelW - 1, KernelH - 1>>),
      ShiftKernel(<<KernelW - 1, 0>>, <<0, 0>>),
      ShiftKernel(<<0, KernelH - 1>>, <<0, 0>>) }

BasisLists == SeqsUpTo(BasisKernels, MaxBasis) \ {<<>>}

ImagesToConvolve ==
    { [p \in SolvePixels |-> (p[1] + p[2]) % (MaxPixel + 1)],
      [p \in SolvePixels |-> IF p[1] = 1 THEN MaxPixel ELSE 0] }

ImagesToNotConvolve ==
    { [p \in SolvePixels |-> (p[1] * p[2]) % (MaxPixel + 1)],
      [p \in SolvePixels |-> MaxPixel] }

VarianceImages ==
    { [p \in SolvePixels |-> 1],
      [p \in SolvePixels |-> IF p[2] = 1 THEN VarianceLcm ELSE 1] }

\* math::convolve leaves a border of edge pixels: the anchor offset on the
\* low side, extent - anchor - 1 on the high side
ConvolutionDefined(k, p) ==
    /\ k.ctrX <= p[1] /\ p[1] <= SolveW - (k.width - k.ctrX)
    /\ k.ctrY <= p[2] /\ p[2] <= SolveH - (k.height - k.ctrY)

\* math::convolve of the intensity plane with a one-pixel kernel; edge is the
\* value the edge pixels hold
Convolve(image, k, edge) ==
    [p \in SolvePixels |->
        IF ConvolutionDefined(k, p)
        THEN image[<<p[1] - k.ctrX + k.pixel[1], p[2] - k.ctrY + k.pixel[2]>>]
        ELSE edge]

\* line 531, in units of 1/VarianceLcm
InverseVariance(v) == VarianceLcm \div v

\* lines 511-514, in unsigned arithmetic
WindowStartCol(kernels) == ToUnsigned(kernels[1].ctrX)
WindowStartRow(kernels) == ToUnsigned(kernels[1].ctrY)
WindowEndCol(kernels) == ToUnsigned(SolveW - (kernels[1].width - kernels[1].ctrX) + 1)
WindowEndRow(kernels) == ToUnsigned(SolveH - (kernels[1].height - kernels[1].ctrY) + 1)

\* what a read through a locator can return: the pixel it addresses, or any
\* value when it addresses no pixel of the image
LocatorRead(plane, locator, values) ==
    IF locator \in SolvePixels THEN {plane[locator]} ELSE values

nKernelParameters == Len(kernelInBasisList)
nParameters == nKernelParameters + 1
ParameterIndices == 0 .. nParameters - 1

\* lines 543-564: the contribution of one pixel to M
AccumulateM(matrix, cdImage, iVariance) ==
    [e \in ParameterIndices \X ParameterIndices |->
        matrix[e] +
        (IF e[1] < nKernelParameters /\ e[2] < nKernelParameters /\ e[1] <= e[2]
            THEN cdImage[e[1] + 1] * cdImage[e[2] + 1] * iVariance
         ELSE IF e[1] < nKernelParameters /\ e[2] = nParameters - 1
            THEN cdImage[e[1] + 1] * iVariance
         ELSE IF e[1] = nParameters - 1 /\ e[2] = nParameters - 1
            THEN iVariance
         ELSE 0)]

\* lines 556 and 563: the contribution of one pixel to B
AccumulateB(vector, ncImage, cdImage, iVariance) ==
    [i \in ParameterIndices |->
        vector[i] +
        (IF i < nKernelParameters THEN ncImage * cdImage[i + 1] * iVariance
         ELSE ncImage * iVariance)]

\* lines 597-600
MirrorM(matrix) ==
    [e \in ParameterIndices \X ParameterIndices |->
        IF e[1] > e[2] THEN matrix[<<e[2], e[1]>>] ELSE matrix[e]]

StepX(locator) == <<locator[1] + 1, locator[2]>>
StepY(locator) == <<locator[1], locator[2] + 1>>

InitSolve ==
    /\ pc = "solveStart"
    /\ imageToConvolve \in ImagesToConvolve
    /\ imageToNotConvolve \in ImagesToNotConvolve
    /\ varianceImage \in VarianceImages
    /\ kernelInBasisList \in BasisLists
    /\ convolvedImageList = <<>>
    /\ M = "none"
    /\ B = "none"
    /\ startCol = 0
    /\ startRow = 0
    /\ endCol = 0
    /\ endRow = 0
    /\ row = 0
    /\ col = 0
    /\ imageToNotConvolveLocator = <<0, 0>>
    /\ varianceLocator = <<0, 0>>
    /\ convolvedLocatorList = <<>>
    /\ SelectIdle
    /\ GenIdle
    /\ FitIdle
    /\ DiffIdle
    /\ StatIdle
    /\ CallIdle
    /\ TwinIdle

\* lines 449-479: B and M are allocated and zeroed, imageToConvolve is
\* convolved with every basis kernel
SolveConvolve ==
    /\ pc = "solveStart"
    /\ B' = [i \in ParameterIndices |-> 0]
    /\ M' = [e \in ParameterIndices \X ParameterIndices |-> 0]
    /\ \E edges \in [1 .. nKernelParameters -> PixelValues] :
          convolvedImageList' =
             [i \in 1 .. nKernelParameters |->
                 Convolve(imageToConvolve, kernelInBasisList[i], edges[i])]
    /\ pc' = "solveWindow"
    /\ UNCHANGED <<solveInputs, startCol, startRow, endCol, endRow, row, col,
                   imageToNotConvolveLocator, varianceLocator, convolvedLocatorList,
                   selVars, genVars, fitVars, diffVars, statVars, callVars, twinVars>>

\* lines 481-524: the window is taken from the first basis kernel, every
\* locator is placed on (startCol, startRow)
SolveWindow ==
    /\ pc = "solveWindow"
    /\ startCol' = WindowStartCol(kernelInBasisList)
    /\ startRow' = WindowStartRow(kernelInBasisList)
    /\ endCol' = WindowEndCol(kernelInBasisList)
    /\ endRow' = WindowEndRow(kernelInBasisList)
    /\ convolvedLocatorList' = [i \in 1 .. nKernelParameters |-> <<startCol', startRow'>>]
    /\ imageToNotConvolveLocator' = <<startCol', startRow'>>
    /\ varianceLocator' = <<startCol', startRow'>>
    /\ row' = startRow'
    /\ col' = startCol'
    /\ pc' = "solveScan"
    /\ UNCHANGED <<solveInputs, convolvedImageList, M, B, selVars, genVars, fitVars,
                   diffVars, statVars, callVars, twinVars>>

\* lines 526-579: one iteration of the column loop
SolvePixel ==
    /\ pc = "solveScan"
    /\ row < endRow
    /\ col < endCol
    /\ \E ncImage \in LocatorRead(imageToNotConvolve, imageToNotConvolveLocator, PixelValues),
          variance \in LocatorRead(varianceImage, varianceLocator, VarianceValues),
          cdImage \in [1 .. nKernelParameters -> PixelValues] :
          /\ \A i \in 1 .. nKernelParameters :
                cdImage[i] \in LocatorRead(convolvedImageList[i], convolvedLocatorList[i],
                                           PixelValues)
          /\ M' = AccumulateM(M, cdImage, InverseVariance(variance))
          /\ B' = AccumulateB(B, ncImage, cdImage, InverseVariance(variance))
    /\ imageToNotConvolveLocator' = StepX(imageToNotConvolveLocator)
    /\ varianceLocator' = StepX(varianceLocator)
    /\ convolvedLocatorList' =
          [i \in 1 .. nKernelParameters |-> StepX(convolvedLocatorList[i])]
    /\ col' = ToUnsigned(col + 1)
    /\ UNCHANGED <<pc, solveInputs, convolvedImageList, startCol, startRow, endCol,
                   endRow, row, selVars, genVars, fitVars, diffVars, statVars, callVars,
                   twinVars>>

\* lines 526 and 581-589: the column loop ends; every locator steps one row
\* down from where the column loop left it
SolveRowEnd ==
    /\ pc = "solveScan"
    /\ row < endRow
    /\ ~(col < endCol)
    /\ imageToNotConvolveLocator' = StepY(imageToNotConvolveLocator)
    /\ varianceLocator' = StepY(varianceLocator)
    /\ convolvedLocatorList' =
          [i \in 1 .. nKernelParameters |-> StepY(convolvedLocatorList[i])]
    /\ row' = ToUnsigned(row + 1)
    /\ col' = startCol
    /\ UNCHANGED <<pc, solveInputs, convolvedImageList, M, B, startCol, startRow,
                   endCol, endRow, selVars, genVars, fitVars, diffVars, statVars,
                   callVars, twinVars>>

\* lines 524 and 597-600: the row loop ends, the lower triangle is filled
SolveMirror ==
    /\ pc = "solveScan"
    /\ ~(row < endRow)
    /\ M' = MirrorM(M)
    /\ pc' = "solveMirrored"
    /\ UNCHANGED <<solveInputs, convolvedImageList, B, startCol, startRow, endCol,
                   endRow, row, col, imageToNotConvolveLocator, varianceLocator,
                   convolvedLocatorList, selVars, genVars, fitVars, diffVars, statVars,
                   callVars, twinVars>>

NextSolve == SolveConvolve \/ SolveWindow \/ SolvePixel \/ SolveRowEnd \/ SolveMirror

SpecSolve == InitSolve /\ [][NextSolve]_vars

(***************************************************************************)
(* computePsfMatchingKernelForFootprint up to the window, for basis        *)
(* kernels of every size around the size of the image                      *)
(***************************************************************************)
\* the kernels generateDeltaFunctionKernelSet builds for a width and a height
\* from 1 to two more than the image
WindowKernels ==
    UNION { { DeltaFunctionKernel(w, h, <<cx, cy>>) : cx \in 0 .. w - 1, cy \in 0 .. h - 1 } :
            w \in 1 .. SolveW + 2, h \in 1 .. SolveH + 2 }

InitWindow ==
    /\ pc = "solveStart"
    /\ imageToConvolve \in ImagesToConvolve
    /\ imageToNotConvolve \in ImagesToNotConvolve
    /\ varianceImage \in VarianceImages
    /\ \E k \in WindowKernels : kernelInBasisList = <<k>>
    /\ convolvedImageList = <<>>
    /\ M = "none"
    /\ B = "none"
    /\ startCol = 0
    /\ startRow = 0
    /\ endCol = 0
    /\ endRow = 0
    /\ row = 0
    /\ col = 0
    /\ imageToNotConvolveLocator = <<0, 0>>
    /\ varianceLocator = <<0, 0>>
    /\ convolvedLocatorList = <<>>
    /\ SelectIdle
    /\ GenIdle
    /\ FitIdle
    /\ DiffIdle
    /\ StatIdle
    /\ CallIdle
    /\ TwinIdle

NextWindow == SolveConvolve \/ SolveWindow

SpecWindow == InitWindow /\ [][NextWindow]_vars

(***************************************************************************)
(* Two calls of computePsfMatchingKernelForFootprint on the same           *)
(* intensities, varianceImage and basis, followed step by step             *)
(***************************************************************************)
\* the variance planes of imageToConvolve and imageToNotConvolve in one call
InputVariancePlanes == {[toConvolve |-> v, toNotConvolve |-> v] : v \in VarianceImages}

InitTwin ==
    /\ pc = "solveStart"
    /\ imageToConvolve \in ImagesToConvolve
    /\ imageToNotConvolve \in ImagesToNotConvolve
    /\ varianceImage \in VarianceImages
    /\ \E k \in BasisKernels : kernelInBasisList = <<k>>
    /\ inputVariances \in [1 .. 2 -> InputVariancePlanes]
    /\ MOther = [e \in ParameterIndices \X ParameterIndices |-> 0]
    /\ BOther = [i \in ParameterIndices |-> 0]
    /\ convolvedImageList = <<>>
    /\ M = "none"
    /\ B = "none"
    /\ startCol = 0
    /\ startRow = 0
    /\ endCol = 0
    /\ endRow = 0
    /\ row = 0
    /\ col = 0
    /\ imageToNotConvolveLocator = <<0, 0>>
    /\ varianceLocator = <<0, 0>>
    /\ convolvedLocatorList = <<>>
    /\ SelectIdle
    /\ GenIdle
    /\ FitIdle
    /\ DiffIdle
    /\ StatIdle
    /\ CallIdle

\* lines 526-579 in both calls: ncVariance (line 529) is read from the
\* variance plane of imageToNotConvolve and goes to the trace only; the
\* weight is read through varianceLocator (line 531). The two calls hold
\* the same pixels, so a read inside the image returns the same value to
\* both; a read outside returns to each call what lies behind its own image.
TwinPixel ==
    /\ pc = "solveScan"
    /\ row < endRow
    /\ col < endCol
    /\ \E ncImage, ncImageOther \in
             LocatorRead(imageToNotConvolve, imageToNotConvolveLocator, PixelValues),
          variance, varianceOther \in
             LocatorRead(varianceImage, varianceLocator, VarianceValues),
          cdImage, cdImageOther \in [1 .. nKernelParameters -> PixelValues] :
          /\ \A i \in 1 .. nKernelParameters :
                LET read == LocatorRead(convolvedImageList[i], convolvedLocatorList[i],
                                        PixelValues)
                IN  cdImage[i] \in read /\ cdImageOther[i] \in read
          /\ M' = AccumulateM(M, cdImage, InverseVariance(variance))
          /\ B' = AccumulateB(B, ncImage, cdImage, InverseVariance(variance))
          /\ MOther' = AccumulateM(MOther, cdImageOther, InverseVariance(varianceOther))
          /\ BOther' = AccumulateB(BOther, ncImageOther, cdImageOther,
                                   InverseVariance(varianceOther))
    /\ imageToNotConvolveLocator' = StepX(imageToNotConvolveLocator)
    /\ varianceLocator' = StepX(varianceLocator)
    /\ convolvedLocatorList' =
          [i \in 1 .. nKernelParameters |-> StepX(convolvedLocatorList[i])]
    /\ col' = ToUnsigned(col + 1)
    /\ UNCHANGED <<pc, solveInputs, convolvedImageList, startCol, startRow, endCol,
                   endRow, row, inputVariances, selVars, genVars, fitVars, diffVars,
                   statVars, callVars>>

NextTwin == SolveConvolve \/ SolveWindow \/ TwinPixel \/ SolveRowEnd \/ SolveMirror

SpecTwin == InitTwin /\ [][NextTwin]_vars

(***************************************************************************)
(* computePsfMatchingKernelForFootprint: from the solution to the outputs   *)
(***************************************************************************)
\* values the decomposition of lines 621-651 can leave in an entry of X: a
\* not-a-number when M or B holds a non-finite entry, a finite value otherwise
SolutionValues == {NaN, <<1, 1>>, <<2, 1>>}

\* line 608: gsl_matrix_alloc does not initialise and no statement writes Cov,
\* so an entry holds whatever the memory held; Indeterminate marks an entry
\* not read yet, the first read settles its value among CovarianceValues
Indeterminate == <<0, -1>>
CovarianceValues == {NaN, <<-1, 1>>, Zero, <<4, 1>>}

\* the values of kernelCols and kernelRows the policy can hold
PolicyKernelCols == 1 .. KernelW
PolicyKernelRows == 1 .. KernelH

\* basis lists of 1 .. MaxBasis delta kernels, in the order of lines 111-117
FitBasisLists ==
    { [i \in 1 .. n |->
          DeltaFunctionKernel(KernelW, KernelH,
                              <<(i - 1) % KernelW, (i - 1) \div KernelW>>)]
      : n \in 1 .. MaxBasis }

\* LSST_EXCEPT records the line of the throw with the message; arguments holds
\* what boost::format puts into the message
FitException(message, arguments, site) ==
    [type |-> "Exception", what |-> message, args |-> arguments, line |-> site]

KernelSolutionNan(index) ==
    FitException("Unable to determine kernel solution (nan)", <<>>, 667)
KernelUncertaintyNan(index) ==
    FitException("Unable to determine kernel uncertainty (nan)", <<>>, 670)
KernelNegativeVariance(index, variance) ==
    FitException("Unable to determine kernel uncertainty, negative variance (%.3e)",
                 <<variance>>, 673)
BackgroundUncertaintyNan ==
    FitException("Unable to determine kernel uncertainty (nan)", <<>>, 691)
BackgroundNegativeVariance(variance) ==
    FitException("Unable to determine kernel uncertainty, negative variance (%.3e)",
                 <<variance>>, 694)

\* math::LinearCombinationKernel holds one coefficient per basis kernel
LinearCombinationKernel(kernelList, kernelParameters) ==
    [kernelList |-> kernelList, kernelParameters |-> kernelParameters]
LinearCombinationKernelInvalid(kernelList, kernelParameters) ==
    Len(kernelList) # Cardinality(DOMAIN kernelParameters)

\* number of entries of kValues and kErrValues, an unsigned int product
nKernelValues == ToUnsigned(kCols * kRows)

\* the mutant reads the entry after the one asked for
ReadXShifted(index) == IF index + 1 \in DOMAIN X THEN {X[index + 1]} ELSE SolutionValues
\* gsl_vector_get(X, index): past the end of X the read returns any value
\* when the range check of GSL is compiled out
ReadX(index) == IF index \in DOMAIN X THEN {X[index]} ELSE SolutionValues

\* gsl_matrix_get(Cov, index, index)
ReadCov(index) ==
    IF index \notin DOMAIN Cov \/ Cov[index] = Indeterminate THEN CovarianceValues
    ELSE {Cov[index]}

\* the content of Cov after a read of entry index returned value
SettleCov(index, value) ==
    IF index \in DOMAIN Cov THEN [Cov EXCEPT ![index] = value] ELSE Cov

(***************************************************************************)
(* computePsfMatchingKernelForFootprint: the solution of M x = B           *)
(***************************************************************************)
IndexSeq == [i \in 1 .. nParameters |-> i - 1]

RECURSIVE Determinant(_, _, _)
\* the determinant of the rows and columns of matrix listed in rows and cols,
\* expanded along the first row
Determinant(matrix, rows, cols) ==
    IF rows = <<>> THEN 1
    ELSE LET others(k) == [j \in 1 .. Len(cols) - 1 |->
                              IF j < k THEN cols[j] ELSE cols[j + 1]]
             term == [k \in 1 .. Len(cols) |->
                         (IF k % 2 = 1 THEN 1 ELSE -1) *
                         matrix[<<Head(rows), cols[k]>>] *
                         Determinant(matrix, Tail(rows), others(k))]
         IN  SumOver(1 .. Len(cols), term)

\* no singular value is discarded at line 635
FullRank(matrix) == Determinant(matrix, IndexSeq, IndexSeq) # 0

\* lines 621-651 for a matrix of full rank: the x with matrix x = vector
LinearSolution(matrix, vector) ==
    [j \in ParameterIndices |->
        Fraction(Determinant([e \in ParameterIndices \X ParameterIndices |->
                                 IF e[2] = j THEN vector[e[1]] ELSE matrix[e]],
                             IndexSeq, IndexSeq),
                 Determinant(matrix, IndexSeq, IndexSeq))]

\* lines 635-637 zero the discarded directions: a finite solution of least
\* norm, one of these vectors in the model
RankDeficientSolutions == [ParameterIndices -> {Zero, <<1, 1>>}]

\* lines 606-651: work, X and Cov are allocated, M x = B is solved by the
\* singular value decomposition of M, work is freed
SolveDecompose ==
    /\ pc = "solveMirrored"
    /\ pc' = "fitStart"
    /\ IF FullRank(M) THEN X' = LinearSolution(M, B)
       ELSE X' \in RankDeficientSolutions
    /\ Cov' = [i \in ParameterIndices |-> Indeterminate]
    /\ UNCHANGED <<kCols, kRows, idx, kValues, kErrValues, kernelPtr, kernelErrorPtr,
                   background, backgroundError, fitError, failedParameter, selVars,
                   genVars, solveVars, diffVars, statVars, callVars, twinVars>>

\* the state at line 658
InitFit ==
    /\ pc = "fitStart"
    /\ imageToConvolve = "none"
    /\ imageToNotConvolve = "none"
    /\ varianceImage = "none"
    /\ kernelInBasisList \in FitBasisLists
    /\ convolvedImageList = <<>>
    /\ M = "none"
    /\ B = "none"
    /\ startCol = 0
    /\ startRow = 0
    /\ endCol = 0
    /\ endRow = 0
    /\ row = 0
    /\ col = 0
    /\ imageToNotConvolveLocator = <<0, 0>>
    /\ varianceLocator = <<0, 0>>
    /\ convolvedLocatorList = <<>>
    /\ X \in [ParameterIndices -> SolutionValues]
    /\ Cov = [i \in ParameterIndices |-> Indeterminate]
    /\ kCols \in PolicyKernelCols
    /\ kRows \in PolicyKernelRows
    /\ idx = 0
    /\ kValues = <<>>
    /\ kErrValues = <<>>
    /\ kernelPtr = NullKernel
    /\ kernelErrorPtr = NullKernel
    /\ background = Zero
    /\ backgroundError = Zero
    /\ fitError = NoError
    /\ failedParameter = -1
    /\ SelectIdle
    /\ GenIdle
    /\ DiffIdle
    /\ StatIdle
    /\ CallIdle
    /\ TwinIdle

\* lines 659-663: kValues and kErrValues are allocated, the loop starts
FitBegin ==
    /\ pc = "fitStart"
    /\ pc' = "fitLoop"
    /\ kValues' = [i \in 0 .. nKernelValues - 1 |-> Zero]
    /\ kErrValues' = [i \in 0 .. nKernelValues - 1 |-> Zero]
    /\ idx' = 0
    /\ UNCHANGED <<X, Cov, kCols, kRows, kernelPtr, kernelErrorPtr, background,
                   backgroundError, fitError, failedParameter, selVars, genVars,
                   solveVars, diffVars, statVars, callVars, twinVars>>

\* lines 663-682: one turn of the loop over the kCols * kRows kernel values
FitCheckEntry ==
    /\ pc = "fitLoop"
    /\ idx < nKernelValues
    /\ \E x \in ReadX(idx) :
         IF IsNan(x)
            THEN /\ pc' = "fitThrown"
                 /\ fitError' = KernelSolutionNan(idx)
                 /\ failedParameter' = idx
                 /\ UNCHANGED <<Cov, idx, kValues, kErrValues>>
         ELSE \E c \in ReadCov(idx) :
                /\ Cov' = SettleCov(idx, c)
                /\ IF IsNan(c)
                      THEN /\ pc' = "fitThrown"
                           /\ fitError' = KernelUncertaintyNan(idx)
                           /\ failedParameter' = idx
                           /\ UNCHANGED <<idx, kValues, kErrValues>>
                   ELSE IF LessThan(c, Zero)
                      THEN /\ pc' = "fitThrown"
                           /\ fitError' = KernelNegativeVariance(idx, c)
                           /\ failedParameter' = idx
                           /\ UNCHANGED <<idx, kValues, kErrValues>>
                   ELSE /\ kValues' = [kValues EXCEPT ![idx] = x]
                        /\ kErrValues' = [kErrValues EXCEPT ![idx] = Sqrt(c)]
                        /\ idx' = idx + 1
                        /\ UNCHANGED <<pc, fitError, failedParameter>>
    /\ UNCHANGED <<X, kCols, kRows, kernelPtr, kernelErrorPtr, background,
                   backgroundError, selVars, genVars, solveVars, diffVars, statVars,
                   callVars, twinVars>>

\* lines 666-680: with its range check compiled in, gsl_vector_get ends the
\* program when idx is past the end of X
FitAbort ==
    /\ pc = "fitLoop"
    /\ idx < nKernelValues
    /\ idx \notin DOMAIN X
    /\ pc' = "fitAborted"
    /\ UNCHANGED <<selVars, genVars, solveVars, fitVars, diffVars, statVars, callVars,
                   twinVars>>

\* lines 684-687: the two output kernels are built and assigned
FitBuildKernels ==
    /\ pc = "fitLoop"
    /\ idx >= nKernelValues
    /\ IF LinearCombinationKernelInvalid(kernelInBasisList, kValues)
          THEN /\ pc' = "fitThrown"
               /\ fitError' = [type |-> "InvalidParameter",
                               what |-> "kernelList.size() != kernelParameters.size()",
                               args |-> <<>>, line |-> 685]
               /\ UNCHANGED <<kernelPtr, kernelErrorPtr>>
       ELSE /\ pc' = "fitBackground"
            /\ kernelPtr' = LinearCombinationKernel(kernelInBasisList, kValues)
            /\ kernelErrorPtr' = LinearCombinationKernel(kernelInBasisList, kErrValues)
            /\ UNCHANGED fitError
    /\ UNCHANGED <<X, Cov, kCols, kRows, idx, kValues, kErrValues, background,
                   backgroundError, failedParameter, selVars, genVars, solveVars,
                   diffVars, statVars, callVars, twinVars>>

\* lines 690-700: the background and its uncertainty
FitBackground ==
    /\ pc = "fitBackground"
    /\ \E c \in ReadCov(nParameters - 1) :
         /\ Cov' = SettleCov(nParameters - 1, c)
         /\ IF IsNan(c)
               THEN /\ pc' = "fitThrown"
                    /\ fitError' = BackgroundUncertaintyNan
                    /\ failedParameter' = nParameters - 1
                    /\ UNCHANGED <<background, backgroundError>>
            ELSE IF LessThan(c, Zero)
               THEN /\ pc' = "fitThrown"
                    /\ fitError' = BackgroundNegativeVariance(c)
                    /\ failedParameter' = nParameters - 1
                    /\ UNCHANGED <<background, backgroundError>>
            ELSE /\ pc' = "fitReturned"
                 /\ background' = X[nParameters - 1]
                 /\ backgroundError' = Sqrt(c)
                 /\ UNCHANGED <<fitError, failedParameter>>
    /\ UNCHANGED <<X, kCols, kRows, idx, kValues, kErrValues, kernelPtr,
                   kernelErrorPtr, selVars, genVars, solveVars, diffVars, statVars,
                   callVars, twinVars>>

NextFit == FitBegin \/ FitCheckEntry \/ FitAbort \/ FitBuildKernels \/ FitBackground

SpecFit == InitFit /\ [][NextFit]_vars

(***************************************************************************)
(* computePsfMatchingKernelForFootprint on noise-free data                 *)
(***************************************************************************)
CoefficientValues == 1 .. 2
BackgroundValues == 0 .. 1

\* convolve(image, sum of coefficients[i] * kernels[i]) + bg; the edge
\* pixels of the convolution hold 0
MatchedImage(image, kernels, coefficients, bg) ==
    [p \in SolvePixels |->
        SumOver(1 .. Len(kernels),
                [i \in 1 .. Len(kernels) |->
                    coefficients[i] * Convolve(image, kernels[i], 0)[p]]) + bg]

InitRoundTrip ==
    /\ pc = "solveStart"
    /\ imageToConvolve \in ImagesToConvolve
    /\ varianceImage \in VarianceImages
    /\ kernelInBasisList \in FitBasisLists
    /\ \E c \in [1 .. nKernelParameters -> CoefficientValues], bg \in BackgroundValues :
          imageToNotConvolve = MatchedImage(imageToConvolve, kernelInBasisList, c, bg)
    /\ convolvedImageList = <<>>
    /\ M = "none"
    /\ B = "none"
    /\ startCol = 0
    /\ startRow = 0
    /\ endCol = 0
    /\ endRow = 0
    /\ row = 0
    /\ col = 0
    /\ imageToNotConvolveLocator = <<0, 0>>
    /\ varianceLocator = <<0, 0>>
    /\ convolvedLocatorList = <<>>
    /\ X = <<>>
    /\ Cov = <<>>
    /\ kCols \in PolicyKernelCols
    /\ kRows \in PolicyKernelRows
    /\ kCols * kRows = nKernelParameters
    /\ idx = 0
    /\ kValues = <<>>
    /\ kErrValues = <<>>
    /\ kernelPtr = NullKernel
    /\ kernelErrorPtr = NullKernel
    /\ background = Zero
    /\ backgroundError = Zero
    /\ fitError = NoError
    /\ failedParameter = -1
    /\ SelectIdle
    /\ GenIdle
    /\ DiffIdle
    /\ StatIdle
    /\ CallIdle
    /\ TwinIdle

\* the kernel shape of the policy holds the n basis kernels here, so idx
\* stays inside X and FitAbort is never enabled
NextSolveKernel ==
    NextSolve \/ SolveDecompose \/ FitBegin \/ FitCheckEntry \/ FitBuildKernels \/
    FitBackground

SpecRoundTrip == InitRoundTrip /\ [][NextSolveKernel]_vars

(***************************************************************************)
(* convolveAndSubtract and addFunctionToImage                              *)
(***************************************************************************)
\* a MaskedImage is a record of three planes over SolvePixels; a mask value
\* is the set of the mask planes set at the pixel
MaskPlanes ==
    { [p \in SolvePixels |-> {}],
      [p \in SolvePixels |-> IF p = <<1, 1>> THEN {"BAD"} ELSE {}] }

MaskedImage(imagePlane, variancePlane, maskPlane) ==
    [image |-> imagePlane, variance |-> variancePlane, mask |-> maskPlane]

MaskedImagesToConvolve ==
    { MaskedImage(i, v, m) : i \in ImagesToConvolve, v \in VarianceImages, m \in MaskPlanes }
MaskedImagesToNotConvolve ==
    { MaskedImage(i, v, m) : i \in ImagesToNotConvolve, v \in VarianceImages,
                             m \in MaskPlanes }

\* linear combinations of a basis list with whole coefficients
LinearCombinationKernels ==
    UNION { { LinearCombinationKernel(l, c) :
                c \in [0 .. Len(l) - 1 -> {<<1, 1>>, <<2, 1>>}] } : l \in FitBasisLists }

\* the values of the argument background
ScalarBackgrounds == {-1, 0, 1}

\* a Function2 of the model is c0 + cx * x + cy * y
Function2(c0, cx, cy) == [c0 |-> c0, cx |-> cx, cy |-> cy]
Function2Value(function, x, y) == function.c0 + function.cx * x + function.cy * y
BackgroundFunctions == {Function2(0, 0, 0), Function2(1, 1, 0), Function2(0, 1, 2)}

\* what math::convolve can leave on an edge pixel of the intensity and the
\* variance plane
EdgePixels == [image : PixelValues, variance : {0, 1}]

\* the pixels of the source image under the kernel k placed on p
KernelFootprint(k, p) ==
    { <<p[1] - k.ctrX + i, p[2] - k.ctrY + j>> : i \in 0 .. k.width - 1,
                                                 j \in 0 .. k.height - 1 }

\* math::convolve of a MaskedImage with a one-pixel kernel: the variance is
\* convolved with the squared kernel, the mask is the union of the masks under
\* the kernel, the edge pixels carry the edge bit
ConvolveMaskedImage(mi, k, edge) ==
    MaskedImage(
        Convolve(mi.image, k, edge.image),
        Convolve(mi.variance, k, edge.variance),
        [p \in SolvePixels |->
            IF ConvolutionDefined(k, p)
            THEN UNION {mi.mask[q] : q \in KernelFootprint(k, p)}
            ELSE {"EDGE"}])

\* math::convolveLinear: the combination of the convolutions with the basis
\* kernels where all of them are defined, edge pixels elsewhere
ConvolveLinear(mi, lck, edge) ==
    LET n == Len(lck.kernelList)
        conv == [i \in 1 .. n |-> ConvolveMaskedImage(mi, lck.kernelList[i], edge)]
        coef == [i \in 1 .. n |-> lck.kernelParameters[i - 1][1]]
        defined(p) == \A i \in 1 .. n : ConvolutionDefined(lck.kernelList[i], p)
    IN  MaskedImage(
            [p \in SolvePixels |->
                IF defined(p)
                THEN SumOver(1 .. n, [i \in 1 .. n |-> coef[i] * conv[i].image[p]])
                ELSE edge.image],
            [p \in SolvePixels |->
                IF defined(p)
                THEN SumOver(1 .. n, [i \in 1 .. n |-> coef[i] * coef[i] * conv[i].variance[p]])
                ELSE edge.variance],
            [p \in SolvePixels |->
                IF defined(p) THEN UNION {conv[i].mask[p] : i \in 1 .. n} ELSE {"EDGE"}])

\* MaskedImage::operator+=(double): the scalar is added to the intensity
PlusScalar(mi, scalar) ==
    MaskedImage([p \in SolvePixels |-> mi.image[p] + scalar], mi.variance, mi.mask)

\* MaskedImage::operator-=(MaskedImage): intensities are subtracted, variances
\* added, masks united
MinusMaskedImage(mi, rhs) ==
    MaskedImage([p \in SolvePixels |-> mi.image[p] - rhs.image[p]],
                [p \in SolvePixels |-> mi.variance[p] + rhs.variance[p]],
                [p \in SolvePixels |-> mi.mask[p] \cup rhs.mask[p]])

\* MaskedImage::operator*=(double): the variance is scaled by the square
TimesScalar(mi, scalar) ==
    MaskedImage([p \in SolvePixels |-> mi.image[p] * scalar],
                [p \in SolvePixels |-> mi.variance[p] * scalar * scalar],
                mi.mask)

\* image::positionToIndex of a non-negative whole position
PositionToIndex(pos) == pos

\* the mutant hands the row position to the function as its first argument
AddFunctionToImageTransposed(image, function) ==
    [p \in SolvePixels |->
        image[p] + Function2Value(function, PositionToIndex(p[2]), PositionToIndex(p[1]))]
\* lines 808-834: function(colPos, rowPos) is added to every pixel of image
AddFunctionToImage(image, function) ==
    [p \in SolvePixels |->
        image[p] + Function2Value(function, PositionToIndex(p[1]), PositionToIndex(p[2]))]

\* the mutant leaves out the change of sign
SubtractReversed(convolved, notConvolved) == MinusMaskedImage(convolved, notConvolved)
\* lines 180-181, 214-215, 253-254, 289-290: "Do actual subtraction"
Subtract(convolved, notConvolved) ==
    TimesScalar(MinusMaskedImage(convolved, notConvolved), -1)

DiffOverloads == {"kernelScalar", "linearScalar", "kernelFunction", "linearFunction"}

InitDiff ==
    /\ pc = "diffStart"
    /\ diffOp \in DiffOverloads
    /\ maskedImageToConvolve \in MaskedImagesToConvolve
    /\ maskedImageToNotConvolve \in MaskedImagesToNotConvolve
    /\ convolutionKernel \in
          IF diffOp \in {"kernelScalar", "kernelFunction"} THEN BasisKernels
          ELSE LinearCombinationKernels
    /\ IF diffOp \in {"kernelScalar", "linearScalar"}
          THEN diffBackground \in ScalarBackgrounds /\ backgroundFunction = "none"
       ELSE diffBackground = 0 /\ backgroundFunction \in BackgroundFunctions
    /\ edgePixel = "none"
    /\ convolvedMaskedImage = "none"
    /\ SelectIdle
    /\ GenIdle
    /\ SolveIdle
    /\ FitIdle
    /\ StatIdle
    /\ CallIdle
    /\ TwinIdle

\* lines 167-173 and 240-246: math::convolve into a new MaskedImage
DiffConvolve ==
    /\ pc = "diffStart"
    /\ diffOp \in {"kernelScalar", "kernelFunction"}
    /\ \E edge \in EdgePixels :
          /\ edgePixel' = edge
          /\ convolvedMaskedImage' =
                ConvolveMaskedImage(maskedImageToConvolve, convolutionKernel, edge)
    /\ pc' = "diffBackground"
    /\ UNCHANGED <<diffOp, maskedImageToConvolve, maskedImageToNotConvolve,
                   convolutionKernel, diffBackground, backgroundFunction, selVars,
                   genVars, solveVars, fitVars, statVars, callVars, twinVars>>

\* lines 202-207 and 277-282: math::convolveLinear into a new MaskedImage
DiffConvolveLinear ==
    /\ pc = "diffStart"
    /\ diffOp \in {"linearScalar", "linearFunction"}
    /\ \E edge \in EdgePixels :
          /\ edgePixel' = edge
          /\ convolvedMaskedImage' =
                ConvolveLinear(maskedImageToConvolve, convolutionKernel, edge)
    /\ pc' = "diffBackground"
    /\ UNCHANGED <<diffOp, maskedImageToConvolve, maskedImageToNotConvolve,
                   convolutionKernel, diffBackground, backgroundFunction, selVars,
                   genVars, solveVars, fitVars, statVars, callVars, twinVars>>

\* the mutant adds the background through a shallow copy of the input: the
\* caller's image receives the sum as well
DiffAddScalarShallow ==
    /\ pc = "diffBackground"
    /\ diffOp \in {"kernelScalar", "linearScalar"}
    /\ convolvedMaskedImage' = PlusScalar(convolvedMaskedImage, diffBackground)
    /\ maskedImageToConvolve' = convolvedMaskedImage'
    /\ pc' = "diffSubtract"
    /\ UNCHANGED <<diffOp, maskedImageToNotConvolve,
                   convolutionKernel, diffBackground, backgroundFunction, edgePixel,
                   selVars, genVars, solveVars, fitVars, statVars, callVars, twinVars>>

\* lines 176 and 210: convolvedMaskedImage += background
DiffAddScalar ==
    /\ pc = "diffBackground"
    /\ diffOp \in {"kernelScalar", "linearScalar"}
    /\ convolvedMaskedImage' = PlusScalar(convolvedMaskedImage, diffBackground)
    /\ pc' = "diffSubtract"
    /\ UNCHANGED <<diffOp, maskedImageToConvolve, maskedImageToNotConvolve,
                   convolutionKernel, diffBackground, backgroundFunction, edgePixel,
                   selVars, genVars, solveVars, fitVars, statVars, callVars, twinVars>>

\* lines 249 and 285: addFunctionToImage on the intensity plane
DiffAddFunction ==
    /\ pc = "diffBackground"
    /\ diffOp \in {"kernelFunction", "linearFunction"}
    /\ convolvedMaskedImage' =
          [convolvedMaskedImage EXCEPT
              !.image = AddFunctionToImage(convolvedMaskedImage.image, backgroundFunction)]
    /\ pc' = "diffSubtract"
    /\ UNCHANGED <<diffOp, maskedImageToConvolve, maskedImageToNotConvolve,
                   convolutionKernel, diffBackground, backgroundFunction, edgePixel,
                   selVars, genVars, solveVars, fitVars, statVars, callVars, twinVars>>

\* lines 179-183: the subtraction, the change of sign and the return
DiffSubtract ==
    /\ pc = "diffSubtract"
    /\ convolvedMaskedImage' = Subtract(convolvedMaskedImage, maskedImageToNotConvolve)
    /\ pc' = "diffReturned"
    /\ UNCHANGED <<diffOp, maskedImageToConvolve, maskedImageToNotConvolve,
                   convolutionKernel, diffBackground, backgroundFunction, edgePixel,
                   selVars, genVars, solveVars, fitVars, statVars, callVars, twinVars>>

NextDiff ==
    DiffConvolve \/ DiffConvolveLinear \/ DiffAddScalar \/ DiffAddFunction \/ DiffSubtract

SpecDiff == InitDiff /\ [][NextDiff]_vars

(***************************************************************************)
(* calculateMaskedImageStatistics and DifferenceImageStatistics            *)
(***************************************************************************)
StatPixels == (0 .. StatW - 1) \X (0 .. StatH - 1)

\* the variances of these images are perfect squares, so that
\* image / sqrt(variance) is an exact fraction
StatImages ==
    { MaskedImage(i, v, m) :
        i \in { [p \in StatPixels |-> p[1] + p[2]],
                [p \in StatPixels |-> 1],
                [p \in StatPixels |-> IF p[1] = 0 THEN -1 ELSE 2] },
        v \in { [p \in StatPixels |-> 1],
                [p \in StatPixels |-> IF p[2] = 0 THEN 4 ELSE 1] },
        m \in { [p \in StatPixels |-> {}],
                [p \in StatPixels |-> {"BAD"}],
                [p \in StatPixels |-> IF p = <<0, 0>> THEN {} ELSE {"BAD"}],
                [p \in StatPixels |-> IF p[2] = 0 THEN {"EDGE"} ELSE {}],
                [p \in StatPixels |->
                    IF p = <<0, 0>> THEN {"BAD"}
                    ELSE IF p[2] = 0 THEN {"EDGE"} ELSE {}] } }

BadPixelMasks == {{}, {"BAD"}, {"BAD", "EDGE"}}

QualityPolicies ==
    [maximumFootprintResidualMean : {Zero, <<1, 1>>},
     maximumFootprintResidualStd : {<<1, 2>>, <<2, 1>>}]

\* the mutant asks for a mask of zero in both overloads
PassesMaskTestExact(op, mask, bad) == mask = {}
\* lines 731 and 779: (ptr.mask() & badPixelMask) == 0 in the overload with a
\* bad pixel mask, ptr.mask() == 0 in the other
PassesMaskTest(op, mask, bad) ==
    IF op = "masked" THEN mask \cap bad = {} ELSE mask = {}

\* lines 732 and 780: ptr.image() / sqrt(ptr.variance())
Normalized(pixelImage, pixelVariance) == Fraction(pixelImage, IntSqrt(pixelVariance))
\* lines 733 and 781: ptr.image() * ptr.image() / ptr.variance()
NormalizedSquare(pixelImage, pixelVariance) ==
    Fraction(pixelImage * pixelImage, pixelVariance)

\* the mutant divides by the number of pixels of the image
MeanOfAllPixels(sum, n) ==
    IF n > 0 THEN Div(sum, <<StatW * StatH, 1>>) ELSE NaN
\* lines 739-743 and 787-791
MeanOf(sum, n) == IF n > 0 THEN Div(sum, <<n, 1>>) ELSE NaN

\* lines 746 and 794: nGoodPixels / (nGoodPixels - 1), a division of two int
UnbiasFactor(n) == n \div (n - 1)

\* lines 744-749 and 792-797
VarianceOf(sum2, m, n) ==
    IF n > 1 THEN Mul(Sub(Div(sum2, <<n, 1>>), Mul(m, m)), <<UnbiasFactor(n), 1>>)
    ELSE NaN

InitStats ==
    /\ pc = "statStart"
    /\ statOp \in {"masked", "unmasked", "construct"}
    /\ inputImage \in StatImages
    /\ badPixelMask \in (IF statOp = "masked" THEN BadPixelMasks ELSE {{}})
    /\ qualityPolicy \in (IF statOp = "construct" THEN QualityPolicies ELSE {"none"})
    /\ statX = 0
    /\ statY = 0
    /\ x2Sum = Zero
    /\ xSum = Zero
    /\ nGoodPixels = 0
    /\ mean = Zero
    /\ sampleVariance = Zero
    /\ residualMean = Zero
    /\ residualStd = SquareRoot(Zero)
    /\ quality = "none"
    /\ SelectIdle
    /\ GenIdle
    /\ SolveIdle
    /\ FitIdle
    /\ DiffIdle
    /\ CallIdle
    /\ TwinIdle

\* lines 724-725 and 772-773
StatBegin ==
    /\ pc = "statStart"
    /\ pc' = "statScan"
    /\ x2Sum' = Zero
    /\ xSum' = Zero
    /\ nGoodPixels' = 0
    /\ statX' = 0
    /\ statY' = 0
    /\ UNCHANGED <<statOp, inputImage, badPixelMask, mean, sampleVariance, residualMean,
                   residualStd, qualityPolicy, quality, selVars, genVars, solveVars,
                   fitVars, diffVars, callVars, twinVars>>

\* lines 728-737 and 776-785: the pixel under ptr, then ptr moves on
StatPixel ==
    /\ pc = "statScan"
    /\ statY # StatH
    /\ LET p == <<statX, statY>>
       IN  IF PassesMaskTest(statOp, inputImage.mask[p], badPixelMask)
              THEN /\ xSum' = Add(xSum, Normalized(inputImage.image[p], inputImage.variance[p]))
                   /\ x2Sum' = Add(x2Sum, NormalizedSquare(inputImage.image[p],
                                                           inputImage.variance[p]))
                   /\ nGoodPixels' = nGoodPixels + 1
           ELSE UNCHANGED <<xSum, x2Sum, nGoodPixels>>
    /\ IF statX + 1 = StatW
          THEN statX' = 0 /\ statY' = statY + 1
       ELSE statX' = statX + 1 /\ statY' = statY
    /\ UNCHANGED <<pc, statOp, inputImage, badPixelMask, mean, sampleVariance,
                   residualMean, residualStd, qualityPolicy, quality, selVars, genVars,
                   solveVars, fitVars, diffVars, callVars, twinVars>>

\* lines 739-750 and 787-798
StatFinish ==
    /\ pc = "statScan"
    /\ statY = StatH
    /\ mean' = MeanOf(xSum, nGoodPixels)
    /\ sampleVariance' = VarianceOf(x2Sum, mean', nGoodPixels)
    /\ pc' = "statReturned"
    /\ UNCHANGED <<statOp, inputImage, badPixelMask, statX, statY, x2Sum, xSum,
                   nGoodPixels, residualMean, residualStd, qualityPolicy, quality,
                   selVars, genVars, solveVars, fitVars, diffVars, callVars, twinVars>>

\* lines 63-65: the constructor keeps the mean and the square root of the
\* variance
StatConstruct ==
    /\ pc = "statReturned"
    /\ statOp = "construct"
    /\ residualMean' = mean
    /\ residualStd' = SquareRoot(sampleVariance)
    /\ pc' = "constructed"
    /\ UNCHANGED <<statOp, inputImage, badPixelMask, statX, statY, x2Sum, xSum,
                   nGoodPixels, mean, sampleVariance, qualityPolicy, quality, selVars,
                   genVars, solveVars, fitVars, diffVars, callVars, twinVars>>

\* lines 72-81
EvaluateQuality ==
    /\ pc = "constructed"
    /\ LET maxResidualMean == qualityPolicy.maximumFootprintResidualMean
           maxResidualStd == qualityPolicy.maximumFootprintResidualStd
       IN  quality' = IF LessThan(maxResidualMean, Fabs(residualMean)) THEN FALSE
                      ELSE IF RootExceeds(residualStd, maxResidualStd) THEN FALSE
                      ELSE TRUE
    /\ pc' = "qualityReturned"
    /\ UNCHANGED <<statOp, inputImage, badPixelMask, statX, statY, x2Sum, xSum,
                   nGoodPixels, mean, sampleVariance, residualMean, residualStd,
                   qualityPolicy, selVars, genVars, solveVars, fitVars, diffVars,
                   callVars, twinVars>>

NextStats == StatBegin \/ StatPixel \/ StatFinish \/ StatConstruct \/ EvaluateQuality

SpecStats == InitStats /\ [][NextStats]_vars

(***************************************************************************)
(* Several calls of computePsfMatchingKernelForFootprint in one process:   *)
(* the buffers each call takes from the allocator and gives back           *)
(***************************************************************************)
Calls == 1 .. NumCalls

\* what a footprint makes of the solution X and of the decomposition
\* workspace, one entry standing for each buffer
CallInputs ==
    [solution : {<<1, 1>>, <<2, 1>>}, workspace : {<<-1, 1>>, <<4, 1>>}]

\* gsl_vector_alloc, gsl_matrix_alloc and gsl_multifit_linear_alloc do not
\* initialise the block they return: it holds what memory never handed out
\* holds or what an earlier owner of the block left in it
AllocatedContents == {pristine} \cup freedContents

NoOutcome == [kind |-> "none", what |-> "", values |-> <<>>]

\* lines 666-687 for one entry: the checks on X and on the diagonal of Cov,
\* then the kernel value and its uncertainty
CallOutcome(solution, covariance) ==
    IF IsNan(solution)
      THEN [kind |-> "error", what |-> KernelSolutionNan(0).what, values |-> <<>>]
    ELSE IF IsNan(covariance)
      THEN [kind |-> "error", what |-> KernelUncertaintyNan(0).what, values |-> <<>>]
    ELSE IF LessThan(covariance, Zero)
      THEN [kind |-> "error", what |-> KernelNegativeVariance(0, covariance).what,
            values |-> <<covariance>>]
    ELSE [kind |-> "fit", what |-> "",
          values |-> <<solution, SquareRoot(covariance).squared>>]

InitCalls ==
    /\ pc = "calls"
    /\ callPc = [c \in Calls |-> "callStart"]
    /\ callInput \in [Calls -> CallInputs]
    /\ callWork = [c \in Calls |-> Zero]
    /\ callCov = [c \in Calls |-> Zero]
    /\ callOutcome = [c \in Calls |-> NoOutcome]
    /\ liveBuffers = {}
    /\ freedContents = {}
    /\ pristine \in CovarianceValues
    /\ SelectIdle
    /\ GenIdle
    /\ SolveIdle
    /\ FitIdle
    /\ DiffIdle
    /\ StatIdle
    /\ TwinIdle

\* lines 453-457: B and M are allocated and set to zero
CallAllocateNormal(c) ==
    /\ callPc[c] = "callStart"
    /\ liveBuffers' = liveBuffers \cup {<<c, "B">>, <<c, "M">>}
    /\ callPc' = [callPc EXCEPT ![c] = "callAccumulated"]
    /\ UNCHANGED <<pc, callInput, callWork, callCov, callOutcome, freedContents, pristine,
                   selVars, genVars, solveVars, fitVars, diffVars, statVars, twinVars>>

\* lines 606-608: work, X and Cov are allocated
CallAllocateSolver(c) ==
    /\ callPc[c] = "callAccumulated"
    /\ liveBuffers' = liveBuffers \cup {<<c, "work">>, <<c, "X">>, <<c, "Cov">>}
    /\ \E w, v \in AllocatedContents :
          /\ callWork' = [callWork EXCEPT ![c] = w]
          /\ callCov' = [callCov EXCEPT ![c] = v]
    /\ callPc' = [callPc EXCEPT ![c] = "callAllocated"]
    /\ UNCHANGED <<pc, callInput, callOutcome, freedContents, pristine,
                   selVars, genVars, solveVars, fitVars, diffVars, statVars, twinVars>>

\* lines 621-650: the decomposition writes the workspace and X; nothing
\* writes Cov
CallDecompose(c) ==
    /\ callPc[c] = "callAllocated"
    /\ callWork' = [callWork EXCEPT ![c] = callInput[c].workspace]
    /\ callPc' = [callPc EXCEPT ![c] = "callSolved"]
    /\ UNCHANGED <<pc, callInput, callCov, callOutcome, liveBuffers, freedContents,
                   pristine, selVars, genVars, solveVars, fitVars, diffVars, statVars,
                   twinVars>>

\* line 651: gsl_multifit_linear_free(work), the only release of the function
CallFreeWork(c) ==
    /\ callPc[c] = "callSolved"
    /\ liveBuffers' = liveBuffers \ {<<c, "work">>}
    /\ freedContents' = freedContents \cup {callWork[c]}
    /\ callPc' = [callPc EXCEPT ![c] = "callFreed"]
    /\ UNCHANGED <<pc, callInput, callWork, callCov, callOutcome, pristine,
                   selVars, genVars, solveVars, fitVars, diffVars, statVars, twinVars>>

\* lines 658-700: the entries of X and of the diagonal of Cov are checked and
\* the call returns its fit or throws
CallValidate(c) ==
    /\ callPc[c] = "callFreed"
    /\ callOutcome' =
          [callOutcome EXCEPT ![c] = CallOutcome(callInput[c].solution, callCov[c])]
    /\ callPc' = [callPc EXCEPT ![c] =
                     IF callOutcome'[c].kind = "error" THEN "callThrown"
                     ELSE "callReturned"]
    /\ UNCHANGED <<pc, callInput, callWork, callCov, liveBuffers, freedContents,
                   pristine, selVars, genVars, solveVars, fitVars, diffVars, statVars,
                   twinVars>>

NextCalls ==
    \E c \in Calls :
        \/ CallAllocateNormal(c)
        \/ CallAllocateSolver(c)
        \/ CallDecompose(c)
        \/ CallFreeWork(c)
        \/ CallValidate(c)

SpecCalls == InitCalls /\ [][NextCalls]_vars

(***************************************************************************)
(* The core as a whole: one call of any of its four operations             *)
(***************************************************************************)
\* the solver call is the one of InitRoundTrip, whose policy holds a kernel
\* shape, so the validation loop of the fit runs over every basis kernel
InitCore == InitSelect \/ InitRoundTrip \/ InitDiff \/ InitStats

NextCore == NextSelect \/ NextSolveKernel \/ NextDiff \/ NextStats

SpecCore == InitCore /\ [][NextCore]_vars

(***************************************************************************)
(* Properties of the footprint selector                                    *)
(***************************************************************************)
\* the acceptance conditions, stated on the raw region
MeetsAllConditions(fp) ==
    LET grown == GrowFootprint(fp, policy.footprintDiffimGrow)
    IN  /\ Npix(fp) >= policy.footprintDiffimNpixMin
        /\ BBoxInImage(BBoxOf(grown))
        /\ \A p \in grown : maskToConvolve[p] = {} /\ maskToNotConvolve[p] = {}

\* the grown bounding box leaves the image
GrownOutsideImage(fp) ==
    ~BBoxInImage(BBoxOf(GrowFootprint(fp, policy.footprintDiffimGrow)))

RECURSIVE AcceptedOf(_)
AcceptedOf(list) ==
    IF list = <<>> THEN <<>>
    ELSE LET rest == AcceptedOf(Tail(list))
         IN  IF MeetsAllConditions(Head(list))
             THEN <<GrowFootprint(Head(list), policy.footprintDiffimGrow)>> \o rest
             ELSE rest

Range(s) == {s[k] : k \in 1 .. Len(s)}

\* C1: the returned list is exactly what the last executed pass accepted, in
\* the detector's order, with nothing left from an earlier pass; it is
\* empty when no pass ran.  footprintListIn is the detector's answer at
\* passThreshold, so the result is a function of the final pass only.
C1_LastPassOnly ==
    pc = "selDone" =>
        footprintListOut = IF nPasses = 0 THEN <<>> ELSE AcceptedOf(footprintListIn)

\* a return after two or more passes, the last of which accepted a region
C1_Witness ==
    /\ pc = "selDone"
    /\ nPasses = 2
    /\ footprintListOut # <<>>
    /\ Len(footprintListOut) < Len(footprintListIn)

\* C2: every returned footprint is a raw region of the last pass, grown by
\* growMargin, that has at least minPixels pixels, no flagged pixel in either
\* mask and a bounding box inside both images; and every raw region of the
\* last pass with these properties is returned.
C2_AcceptanceConditions ==
    pc = "selDone" =>
        /\ \A k \in 1 .. Len(footprintListOut) :
              \E j \in 1 .. Len(footprintListIn) :
                 /\ footprintListOut[k] =
                       GrowFootprint(footprintListIn[j], policy.footprintDiffimGrow)
                 /\ MeetsAllConditions(footprintListIn[j])
        /\ nPasses > 0 =>
              \A j \in 1 .. Len(footprintListIn) :
                 MeetsAllConditions(footprintListIn[j]) =>
                    GrowFootprint(footprintListIn[j], policy.footprintDiffimGrow)
                       \in Range(footprintListOut)

\* a return where one region was accepted and another rejected for a pixel
\* flagged in the mask of imageToNotConvolve only
C2_Witness ==
    /\ pc = "selDone"
    /\ footprintListOut # <<>>
    /\ \E j \in 1 .. Len(footprintListIn) :
          LET grown == GrowFootprint(footprintListIn[j], policy.footprintDiffimGrow)
          IN  /\ Npix(footprintListIn[j]) >= policy.footprintDiffimNpixMin
              /\ BBoxInImage(BBoxOf(grown))
              /\ \A p \in grown : maskToConvolve[p] = {}
              /\ \E p \in grown : maskToNotConvolve[p] # {}

\* C3: the selector returns after finitely many passes, for every policy
\* with a scaling strictly between 0 and 1 and every detector.
C3_Terminates == <>(pc = "selDone")

\* C4: the selector returns without an error; on return the clean count of
\* the last pass reached the target or the working threshold is at or below
\* the floor, and the list returned holds the regions that pass counted.
C4_ReturnsAtFloor ==
    pc = "selDone" =>
        /\ selError = NoError
        /\ \/ nCleanFootprints >= policy.minimumCleanFootprints
           \/ footprintDetectionThreshold <= policy.minimumDetectionThreshold
        /\ Len(footprintListOut) = nCleanFootprints

\* a return at the floor with fewer clean regions than asked for
C4_Witness ==
    /\ pc = "selDone"
    /\ nPasses > 0
    /\ nCleanFootprints < policy.minimumCleanFootprints
    /\ footprintDetectionThreshold <= policy.minimumDetectionThreshold

\* C5: a raw region whose grown bounding box leaves the image raises no
\* error, is absent from the list, and the regions after it are examined:
\* the pass ends only with the iterator at the end of footprintListIn.
C5_EdgeRegionSkipped ==
    /\ selError = NoError
    /\ \A j \in 1 .. Len(footprintListIn) :
          (j < fpIter /\ GrownOutsideImage(footprintListIn[j])) =>
             GrowFootprint(footprintListIn[j], policy.footprintDiffimGrow)
                \notin Range(footprintListOut)
    /\ (pc \in {"selTest", "selDone"} /\ nPasses > 0) =>
          fpIter = Len(footprintListIn) + 1

\* a region large enough, with clean pixels, whose grown box leaves the
\* image, was skipped and the region after it was accepted
C5_Witness ==
    /\ pc = "selDone"
    /\ Len(footprintListIn) = 2
    /\ Npix(footprintListIn[1]) >= policy.footprintDiffimNpixMin
    /\ GrownOutsideImage(footprintListIn[1])
    /\ \A p \in GrowFootprint(footprintListIn[1], policy.footprintDiffimGrow) \cap Pixels :
          maskToConvolve[p] = {} /\ maskToNotConvolve[p] = {}
    /\ footprintListOut =
          <<GrowFootprint(footprintListIn[2], policy.footprintDiffimGrow)>>

(***************************************************************************)
(* Properties of the basis generators                                      *)
(***************************************************************************)
\* C6: for all positive width and height the delta-function generator
\* returns width*height kernels of size width x height, and the kernel at
\* index row*width+col has its unit pixel and its anchor at (col,row).
C6_DeltaBasisComplete ==
    (genOp = "delta" /\ width >= 1 /\ height >= 1) =>
        /\ pc # "genThrown"
        /\ pc = "genReturned" =>
              /\ Len(kernelBasisList) = width * height
              /\ \A r \in 0 .. height - 1 : \A c \in 0 .. width - 1 :
                    kernelBasisList[r * width + c + 1] =
                       [width |-> width, height |-> height, pixel |-> <<c, r>>,
                        ctrX |-> c, ctrY |-> r]

\* C7: with width < 1 or height < 1 the delta-function generator returns no
\* list and fails with a domain error.
C7_DeltaDomainError ==
    (genOp = "delta" /\ (width < 1 \/ height < 1)) =>
        /\ pc # "genReturned"
        /\ pc = "genThrown" => genError.type = "DomainError"

\* C8: every call of the Alard-Lupton generator fails with the error
\* "Not implemented".
C8_AlwaysNotImplemented ==
    (genOp = "alardLupton" /\ pc # "alardLuptonStart") =>
        /\ pc = "genThrown"
        /\ genError.what = "Not implemented"

\* C8 as amended: every call of the Alard-Lupton generator fails and returns
\* no list; the error is "Not implemented" when nRows >= 1 and nCols >= 1,
\* and the error of the argument check otherwise.
C8_FailsOnEveryInput ==
    (genOp = "alardLupton" /\ pc # "alardLuptonStart") =>
        /\ pc = "genThrown"
        /\ kernelBasisList = <<>>
        /\ genError.what = IF width >= 1 /\ height >= 1
                           THEN "Not implemented"
                           ELSE "nRows and nCols must be positive"

\* the generator was called with positive dimensions and has thrown
C8_Witness ==
    /\ genOp = "alardLupton"
    /\ pc = "genThrown"
    /\ width >= 1
    /\ height >= 1
    /\ genError.what = "Not implemented"

(***************************************************************************)
(* Properties of the kernel solver                                         *)
(***************************************************************************)
\* the pixels of the accumulation window
WindowPixels == {p \in SolvePixels :
                    /\ startCol <= p[1] /\ p[1] < endCol
                    /\ startRow <= p[2] /\ p[2] < endRow}

\* the values at a window pixel: T, w and Ci
ValueT(p) == imageToNotConvolve[p]
ValueW(p) == InverseVariance(varianceImage[p])
ValueC(i, p) == convolvedImageList[i + 1][p]

\* C9: after the scan and the mirroring M is symmetric and M and B hold the
\* weighted sums, taken once over each pixel of the window, of Ci*Cj, Ci, 1,
\* T*Ci and T.
C9_NormalEquations ==
    pc = "solveMirrored" =>
        LET n == nKernelParameters
            K == 0 .. n - 1
        IN  /\ \A i, j \in ParameterIndices : M[<<i, j>>] = M[<<j, i>>]
            /\ \A i, j \in K :
                  M[<<i, j>>] =
                     SumOver(WindowPixels,
                             [p \in WindowPixels |-> ValueC(i, p) * ValueC(j, p) * ValueW(p)])
            /\ \A i \in K :
                  /\ M[<<i, n>>] =
                        SumOver(WindowPixels, [p \in WindowPixels |-> ValueC(i, p) * ValueW(p)])
                  /\ B[i] =
                        SumOver(WindowPixels,
                                [p \in WindowPixels |-> ValueT(p) * ValueC(i, p) * ValueW(p)])
            /\ M[<<n, n>>] = SumOver(WindowPixels, [p \in WindowPixels |-> ValueW(p)])
            /\ B[n] = SumOver(WindowPixels, [p \in WindowPixels |-> ValueT(p) * ValueW(p)])

\* C10: every pixel (col,row) the scan accumulates lies where the
\* convolution with every basis kernel is defined.
C10_WindowInsideEveryBorder ==
    (pc = "solveScan" /\ row < endRow /\ col < endCol) =>
        \A i \in 1 .. nKernelParameters :
           ConvolutionDefined(kernelInBasisList[i], <<col, row>>)

\* the exceptions lines 666-698 can raise for the parameter of index q: those
\* of the loop when q is a kernel value, those of lines 690-698 when q is
\* the background
FitErrorsOf(q) ==
    (IF q < nKernelValues
        THEN {KernelSolutionNan(q), KernelUncertaintyNan(q)} \cup
             {KernelNegativeVariance(q, v) : v \in CovarianceValues}
     ELSE {}) \cup
    (IF q = nParameters - 1
        THEN {BackgroundUncertaintyNan} \cup
             {BackgroundNegativeVariance(v) : v \in CovarianceValues}
     ELSE {})

\* C11: the solver never returns normally while one of the n+1 entries of
\* the solution is not-a-number, or one of the n+1 diagonal entries of the
\* covariance is not-a-number, negative or was never examined
C11_BadEntryRaisesFitError ==
    pc = "fitReturned" =>
        \A i \in ParameterIndices :
            /\ ~IsNan(X[i])
            /\ Cov[i] # Indeterminate
            /\ ~IsNan(Cov[i])
            /\ ~LessThan(Cov[i], Zero)

\* C12: an exception raised by the checks of the fit could not have been
\* raised for any parameter other than the one whose check failed
C12_ErrorIdentifiesParameter ==
    (pc = "fitThrown" /\ fitError.type = "Exception") =>
        \A q \in ParameterIndices \ {failedParameter} : fitError \notin FitErrorsOf(q)

\* C13: on a normal return the output kernel combines the input basis with
\* coefficient i = X[i], the error kernel combines it with the non-negative
\* square root of Cov[i][i], background = X[n], backgroundError is the
\* non-negative square root of Cov[n][n], and no uncertainty is not-a-number
IsSqrtOf(e, c) == ~IsNan(e) /\ e[1] >= 0 /\ e[1] * e[1] = c[1] /\ e[2] * e[2] = c[2]

C13_OutputsFromSolution ==
    pc = "fitReturned" =>
        /\ kernelPtr.kernelList = kernelInBasisList
        /\ kernelErrorPtr.kernelList = kernelInBasisList
        /\ DOMAIN kernelPtr.kernelParameters = 0 .. nKernelParameters - 1
        /\ DOMAIN kernelErrorPtr.kernelParameters = 0 .. nKernelParameters - 1
        /\ \A i \in 0 .. nKernelParameters - 1 :
              /\ kernelPtr.kernelParameters[i] = X[i]
              /\ IsSqrtOf(kernelErrorPtr.kernelParameters[i], Cov[i])
        /\ background = X[nParameters - 1]
        /\ IsSqrtOf(backgroundError, Cov[nParameters - 1])

C13_Witness ==
    /\ pc = "fitReturned"
    /\ nKernelParameters = 2
    /\ X[0] # X[1]
    /\ Cov[0] = <<4, 1>>
    /\ Cov[1] = Zero
    /\ Cov[2] = <<4, 1>>

\* the normal matrix of the data: the weighted sums over the window of the
\* products of the regressors C0 .. Cn-1 and 1
Regressor(i, p) == IF i < nKernelParameters THEN ValueC(i, p) ELSE 1
NormalMatrix ==
    [e \in ParameterIndices \X ParameterIndices |->
        SumOver(WindowPixels,
                [p \in WindowPixels |-> Regressor(e[1], p) * Regressor(e[2], p) * ValueW(p)])]

\* C14: when imageToNotConvolve is the convolution of imageToConvolve with a
\* combination c of the basis plus a constant bg, the normal matrix of the
\* data has full rank and so has the M the scan left, a normal return gives
\* the coefficients c, the background bg and uncertainties that are all 0
C14_RoundTrip ==
    (pc = "fitReturned" /\ FullRank(NormalMatrix) /\ FullRank(M)) =>
        \A c \in [1 .. nKernelParameters -> CoefficientValues], bg \in BackgroundValues :
            imageToNotConvolve = MatchedImage(imageToConvolve, kernelInBasisList, c, bg) =>
                /\ \A i \in 1 .. nKernelParameters :
                      /\ kernelPtr.kernelParameters[i - 1] = <<c[i], 1>>
                      /\ kernelErrorPtr.kernelParameters[i - 1] = Zero
                /\ background = <<bg, 1>>
                /\ backgroundError = Zero

(***************************************************************************)
(* Properties of convolveAndSubtract                                       *)
(***************************************************************************)
\* the convolution the call made, with the edge pixels it wrote
Convolution ==
    IF diffOp \in {"kernelScalar", "kernelFunction"}
    THEN ConvolveMaskedImage(maskedImageToConvolve, convolutionKernel, edgePixel)
    ELSE ConvolveLinear(maskedImageToConvolve, convolutionKernel, edgePixel)

\* the background of the call at pixel p
BackgroundAt(p) ==
    IF diffOp \in {"kernelScalar", "linearScalar"} THEN diffBackground
    ELSE Function2Value(backgroundFunction, p[1], p[2])

\* C15: in each of the four overloads the intensity of the returned image at
\* every pixel is imageToNotConvolve minus (convolution plus background)
C15_MatchedMinusConvolved ==
    pc = "diffReturned" =>
        \A p \in SolvePixels :
            convolvedMaskedImage.image[p] =
                maskedImageToNotConvolve.image[p] - (Convolution.image[p] + BackgroundAt(p))

C15_Witness ==
    /\ pc = "diffReturned"
    /\ diffOp = "linearScalar"
    /\ diffBackground = 1
    /\ \E p \in SolvePixels :
          /\ Convolution.image[p] > 0
          /\ maskedImageToNotConvolve.image[p] = 0
          /\ convolvedMaskedImage.image[p] < 0

\* C16: with a background function the variance and mask planes returned are
\* those a zero background gives, and the intensity at pixel (x, y) is the one
\* a zero background gives minus function(x, y)
C16_FunctionOnIntensityOnly ==
    (pc = "diffReturned" /\ diffOp \in {"kernelFunction", "linearFunction"}) =>
        LET zeroBackground == Subtract(Convolution, maskedImageToNotConvolve)
        IN  /\ convolvedMaskedImage.variance = zeroBackground.variance
            /\ convolvedMaskedImage.mask = zeroBackground.mask
            /\ \A p \in SolvePixels :
                  convolvedMaskedImage.image[p] =
                      zeroBackground.image[p] - Function2Value(backgroundFunction, p[1], p[2])

C16_Witness ==
    /\ pc = "diffReturned"
    /\ diffOp = "kernelFunction"
    /\ backgroundFunction = Function2(0, 1, 2)
    /\ \E p \in SolvePixels : "BAD" \in convolvedMaskedImage.mask[p]
    /\ \E p \in SolvePixels : convolvedMaskedImage.variance[p] > 1

(***************************************************************************)
(* Properties of the statistics                                            *)
(***************************************************************************)
RECURSIVE SumDoubles(_, _)
\* the sum of the doubles term[p] over the pixels p of S
SumDoubles(S, term) ==
    IF S = {} THEN Zero
    ELSE LET p == CHOOSE q \in S : TRUE
         IN  Add(term[p], SumDoubles(S \ {p}, term))

\* the pixels that pass the mask test of the overload called
GoodPixels ==
    {p \in StatPixels : PassesMaskTest(statOp, inputImage.mask[p], badPixelMask)}

C18_UnbiasedVariance ==
    (pc = "statReturned" /\ nGoodPixels >= 2) =>
        Mul(sampleVariance, <<nGoodPixels - 1, 1>>) =
           Mul(Sub(Div(x2Sum, <<nGoodPixels, 1>>), Mul(mean, mean)), <<nGoodPixels, 1>>)

\* C19: at return the count and the two sums are those of the pixels whose
\* mask has no plane in common with badPixelMask when a bad pixel mask is
\* given, and of the pixels whose mask is empty when none is given
C19_MaskTest ==
    pc = "statReturned" =>
        LET included == {p \in StatPixels :
                            IF statOp = "masked"
                            THEN \A plane \in inputImage.mask[p] : plane \notin badPixelMask
                            ELSE inputImage.mask[p] = {}}
        IN  /\ nGoodPixels = Cardinality(included)
            /\ xSum = SumDoubles(included,
                                 [p \in included |->
                                     Normalized(inputImage.image[p], inputImage.variance[p])])
            /\ x2Sum = SumDoubles(included,
                                  [p \in included |->
                                      NormalizedSquare(inputImage.image[p],
                                                       inputImage.variance[p])])

C19_Witness ==
    /\ pc = "statReturned"
    /\ statOp = "masked"
    /\ badPixelMask = {"BAD"}
    /\ \E p \in StatPixels : inputImage.mask[p] = {"EDGE"}
    /\ \E p \in StatPixels : inputImage.mask[p] = {"BAD"}
    /\ nGoodPixels = StatW * StatH - 1
    /\ xSum # Zero

\* x <= y for two doubles: false when either is not-a-number
AtMost(x, y) == ~IsNan(x) /\ ~IsNan(y) /\ x[1] * y[2] <= y[1] * x[2]

\* C20: evaluateQuality returns true exactly when |mean| <= maxMean and
\* |std| <= maxStd, a comparison with a not-a-number not holding
C20_QualityGate ==
    pc = "qualityReturned" =>
        (quality <=>
            /\ AtMost(Fabs(residualMean), qualityPolicy.maximumFootprintResidualMean)
            /\ ~IsNan(residualStd.squared)
            /\ AtMost(Zero, qualityPolicy.maximumFootprintResidualStd)
            /\ AtMost(residualStd.squared,
                      Mul(qualityPolicy.maximumFootprintResidualStd,
                          qualityPolicy.maximumFootprintResidualStd)))

\* C21: no step of the selector, the solver, convolveAndSubtract or the
\* residual statistics changes a plane of a caller-supplied image, the basis
\* list or the kernel handed in; the results are held in variables of their own
CallerInputs ==
    <<maskToConvolve, maskToNotConvolve, imageToConvolve, imageToNotConvolve,
      varianceImage, kernelInBasisList, maskedImageToConvolve,
      maskedImageToNotConvolve, convolutionKernel, inputImage>>

C21_InputsNeverModified == [][CallerInputs' = CallerInputs]_vars

\* convolveAndSubtract has returned a difference image that is neither input
C21_Witness ==
    /\ pc = "diffReturned"
    /\ convolvedMaskedImage # maskedImageToConvolve
    /\ convolvedMaskedImage # maskedImageToNotConvolve

\* C22: for concurrent solver calls on a read-only basis, whatever the order
\* of their steps, each call ends with the fit or the error it ends with when
\* it is the only call of the process
AloneOutcome(c) == CallOutcome(callInput[c].solution, pristine)

C22_InterleavingIndependent ==
    \A c \in Calls :
        callPc[c] \in {"callReturned", "callThrown"} => callOutcome[c] = AloneOutcome(c)

\* C23: after a pass at threshold t that counted fewer clean regions than
\* asked for, the selector starts another pass exactly when t is above the
\* floor, and that pass works at t scaled by detectionThresholdScaling.
C23_FloorTestOnPassJustRun ==
    (/\ nPasses > 0
     /\ pc \in {"selDetect", "selDone"}
     /\ selError = NoError
     /\ nCleanFootprints < policy.minimumCleanFootprints) =>
        /\ (pc = "selDetect") <=> (passThreshold > policy.minimumDetectionThreshold)
        /\ pc = "selDetect" =>
              footprintDetectionThreshold =
                  ScaleThreshold(passThreshold, policy.detectionThresholdScaling)

\* C24: no call returns without a pass of the detector, and the first pass
\* works at the footprintDetectionThreshold of the policy.
C24_DetectorRunsAtLeastOnce ==
    /\ pc = "selDone" => nPasses >= 1
    /\ nPasses = 1 => passThreshold = policy.footprintDetectionThreshold

\* C25: at the iteration of the scan for window pixel (col, row) the locator
\* of imageToNotConvolve, the locator of varianceImage and the locator of
\* every convolved basis image are at pixel (col, row), in every row.
C25_CursorsAtWindowPixel ==
    (pc = "solveScan" /\ row < endRow /\ col < endCol) =>
        /\ imageToNotConvolveLocator = <<col, row>>
        /\ varianceLocator = <<col, row>>
        /\ \A i \in 1 .. nKernelParameters : convolvedLocatorList[i] = <<col, row>>

\* C26: a diagonal entry of Cov whose value passes the checks and is
\* square-rooted into kErrValues or backgroundError was written after Cov
\* was allocated: no such step reads an entry that is still indeterminate.
C26_CovarianceWrittenBeforeRead ==
    [][/\ (pc = "fitLoop" /\ idx' = idx + 1) =>
             (idx \in DOMAIN Cov /\ Cov[idx] # Indeterminate)
       /\ (pc = "fitBackground" /\ pc' = "fitReturned") =>
             Cov[nParameters - 1] # Indeterminate]_vars

\* C28: when the fit throws, on a kernel entry or on the background entry,
\* kernelPtr, kernelErrorPtr, background and backgroundError still hold what
\* the caller put in them.
C28_OutputsUntouchedOnError ==
    pc = "fitThrown" =>
        /\ kernelPtr = NullKernel
        /\ kernelErrorPtr = NullKernel
        /\ background = Zero
        /\ backgroundError = Zero

\* C29: the window computed in unsigned arithmetic lies inside the image for
\* every kernel size and anchor, also when the kernel is larger than the
\* image: startCol <= endCol <= width and startRow <= endRow <= height.
C29_WindowInsideImage ==
    pc = "solveScan" =>
        /\ 0 <= startCol /\ startCol <= endCol /\ endCol <= SolveW
        /\ 0 <= startRow /\ startRow <= endRow /\ endRow <= SolveH

\* C30: when a call has returned or thrown, none of the buffers it allocated
\* (B, M, work, X, Cov) is still allocated.
C30_BuffersReleasedOnReturn ==
    \A c \in Calls :
        callPc[c] \in {"callReturned", "callThrown"} =>
            \A name \in {"B", "M", "work", "X", "Cov"} : <<c, name>> \notin liveBuffers

\* C27: two calls with the same intensities, the same varianceImage and the
\* same basis, whatever the variance planes of imageToConvolve and
\* imageToNotConvolve of each, have accumulated the same M and the same B
\* when the scan ends.
C27_WeightFromVarianceImageOnly ==
    pc = "solveMirrored" => (M = MirrorM(MOther) /\ B = BOther)

====
